---- MODULE Spec2Model ----
(***************************************************************************)
(* RuleForge MCP: technology detection (core/project_analyzer.py), rule   *)
(* generation (core/rule_generator.py), file helpers (core/utils.py) and  *)
(* the tool handlers (mcp_tools.py) as one state machine over a small     *)
(* filesystem.                                                            *)
(*                                                                         *)
(* A Python string that is used as a path or a file name is a sequence of *)
(* tokens ("/" is the separator, ".mdc" the extension); a path of the     *)
(* filesystem is the sequence of its components, each a token sequence.   *)
(* A Python dict is a function with a finite domain of keys.              *)
(***************************************************************************)
EXTENDS Integers, Sequences, FiniteSets, TLC

VARIABLES
    fs,      \* the filesystem: the entries in directory-listing order
    cwd,     \* the working directory of the server process
    env,     \* the value of CURSOR_WORKSPACE
    sys,     \* what the system answers: the interpreters, and json.dumps of a result
    call,    \* the last tool call: its arguments and what it computed on the way
    trace,   \* the probes the last tool call ran, in order, with what each returned
    result,  \* the dict the last tool call returned
    ncalls,  \* the number of tool calls so far
    prev,    \* the tool call before the last one (history, read by no handler)
    response \* what handle_call_tool returned for the last tool call

vars == <<fs, cwd, env, sys, call, trace, result, ncalls, prev, response>>

----
(* Bounds of the model *)

MaxCalls == 2

\* calls of RuleSet in one behaviour
MaxRuns == 1

----
(* Python values *)

None == "None"

EmptyDict == [x \in {} |-> None]

Put(d, k, v) == [x \in (DOMAIN d) \cup {k} |-> IF x = k THEN v ELSE d[x]]

HasKey(d, k) == k \in DOMAIN d

Update(d, e) == [x \in (DOMAIN d) \cup (DOMAIN e) |-> IF x \in DOMAIN e THEN e[x] ELSE d[x]]

\* a local variable: v is computed once and Op uses its value
Bind(v, Op(_)) == CHOOSE r \in {Op(x) : x \in {v}} : TRUE

----
(* Path strings and the filesystem *)

Sep == "/"

MdcExt == ".mdc"

RECURSIVE SplitFrom(_, _, _)
SplitFrom(s, i, cur) ==
    IF i > Len(s) THEN <<cur>>
    ELSE IF s[i] = Sep THEN <<cur>> \o SplitFrom(s, i + 1, << >>)
    ELSE SplitFrom(s, i + 1, Append(cur, s[i]))

Split(s) == SplitFrom(s, 1, << >>)

RECURSIVE NormFrom(_, _, _)
NormFrom(cs, i, acc) ==
    IF i > Len(cs) THEN acc
    ELSE IF cs[i] = << >> \/ cs[i] = <<".">> THEN NormFrom(cs, i + 1, acc)
    ELSE IF cs[i] = <<"..">>
         THEN NormFrom(cs, i + 1, IF acc = << >> THEN acc ELSE SubSeq(acc, 1, Len(acc) - 1))
    ELSE NormFrom(cs, i + 1, Append(acc, cs[i]))

IsAbs(s) == Len(s) > 0 /\ s[1] = Sep

\* the filesystem object a path string names, as the operating system resolves it
Resolve(c, s) == IF IsAbs(s) THEN NormFrom(Split(s), 1, << >>)
                 ELSE NormFrom(c \o Split(s), 1, << >>)

RECURSIVE Unsplit(_)
Unsplit(cs) == IF cs = << >> THEN << >> ELSE <<Sep>> \o Head(cs) \o Unsplit(Tail(cs))

abspath(c, s) == LET r == Resolve(c, s) IN IF r = << >> THEN <<Sep>> ELSE Unsplit(r)

join2(a, b) ==
    IF IsAbs(b) THEN b
    ELSE IF a = << >> \/ a[Len(a)] = Sep THEN a \o b
    ELSE a \o <<Sep>> \o b

RECURSIVE join(_, _)
join(a, names) == IF names = << >> THEN a ELSE join(join2(a, <<Head(names)>>), Tail(names))

dirname(s) ==
    LET idx == {i \in 1..Len(s) : s[i] = Sep}
    IN  IF idx = {} THEN << >>
        ELSE LET m == CHOOSE i \in idx : \A j \in idx : j <= i
             IN  IF m = 1 THEN <<Sep>> ELSE SubSeq(s, 1, m - 1)

endswith(s, t) == Len(s) >= 1 /\ s[Len(s)] = t

Entry(F, p) == CHOOSE i \in 1..Len(F) : F[i].path = p

Exists(F, p) == \E i \in 1..Len(F) : F[i].path = p

IsDir(F, p) == p = << >> \/ \E i \in 1..Len(F) : F[i].path = p /\ F[i].dir

IsFile(F, p) == \E i \in 1..Len(F) : F[i].path = p /\ ~F[i].dir

Data(F, p) == F[Entry(F, p)].data

exists(F, c, s) == LET p == Resolve(c, s) IN p = << >> \/ Exists(F, p)

\* os.path.exists in the place of os.path.isdir
isdir_or_file(F, c, s) == LET p == Resolve(c, s) IN p = << >> \/ Exists(F, p)

isdir(F, c, s) == IsDir(F, Resolve(c, s))

DirData == [k |-> "dir"]

----
(* File contents.  A file is described by what the code can observe of it. *)

Absent == "<absent>"

NoText == << >>

\* a file that cannot be opened or read (OSError)
BadData == [k |-> "bad"]

\* a file whose bytes are not UTF-8 text (UnicodeDecodeError, a ValueError)
BinaryData == [k |-> "binary"]

RawData == [k |-> "raw"]

TextData(has, vals) == [k |-> "text", has |-> has, vals |-> vals]

Readable(F, p) == IsFile(F, p) /\ Data(F, p).k \notin {"bad", "binary"}

TextOf(F, p) == IF Data(F, p).k = "text" THEN Data(F, p) ELSE TextData({}, EmptyDict)

\* s contains sub, for the strings that occur in the model
Contains(s, sub) ==
    CASE sub = "spring-boot-starter" ->
            s \in {"spring-boot-starter", "spring-boot-starter-web", "spring-boot-starter-security",
                   "spring-boot-starter-data-jpa", "spring-boot-starter-actuator",
                   "spring-boot-starter-webflux"}
      [] sub = "org.springframework.cloud" -> s \in {"org.springframework.cloud"}
      [] sub = "mysql-connector" -> s \in {"mysql-connector-java"}
      [] sub = "postgresql" -> s \in {"postgresql"}
      [] sub = "h2" -> s \in {"h2"}
      [] sub = "spring-security" -> s \in {"spring-security-core", "spring-security-web"}
      [] sub = "spring-webmvc" -> s \in {"spring-webmvc"}
      [] sub = "spring-orm" -> s \in {"spring-orm"}
      [] sub = "hibernate" -> s \in {"hibernate-core"}
      [] sub = "struts" -> s \in {"struts2-core", "struts-core"}
      [] sub = "log4j" -> s \in {"log4j"}
      [] sub = "ojdbc" -> s \in {"ojdbc6"}
      [] sub = "mssql-jdbc" -> s \in {"mssql-jdbc"}
      [] OTHER -> FALSE

Digits == {"0", "1", "2", "3", "4", "5", "6", "7", "8", "9"}

DigitVal(ch) ==
    CASE ch = "0" -> 0 [] ch = "1" -> 1 [] ch = "2" -> 2 [] ch = "3" -> 3 [] ch = "4" -> 4
      [] ch = "5" -> 5 [] ch = "6" -> 6 [] ch = "7" -> 7 [] ch = "8" -> 8 [] ch = "9" -> 9

\* index of the first digit of s at or after i, 0 when there is none
FirstDigit(s, i) ==
    LET idx == {j \in i..Len(s) : s[j] \in Digits}
    IN  IF idx = {} THEN 0 ELSE CHOOSE j \in idx : \A m \in idx : j <= m

\* one past the end of the digit run of s that starts at i
RECURSIVE RunEnd(_, _)
RunEnd(s, i) == IF i <= Len(s) /\ s[i] \in Digits THEN RunEnd(s, i + 1) ELSE i

RECURSIVE IntOf(_, _, _, _)
IntOf(s, i, e, acc) == IF i >= e THEN acc ELSE IntOf(s, i + 1, e, acc * 10 + DigitVal(s[i]))

\* re.search(r'(\d+)', s): [found, value]
SearchInt(s) ==
    LET b == FirstDigit(s, 1)
    IN  IF b = 0 THEN [found |-> FALSE, value |-> 0]
        ELSE [found |-> TRUE, value |-> IntOf(s, b, RunEnd(s, b), 0)]

\* pom.xml: ok = well-formed XML, ns = the root uses the Maven POM namespace
PomData(ok, ns, parent, hasDeps, deps, hasProps, props) ==
    [k |-> "pom", ok |-> ok, ns |-> ns, parent |-> parent,
     hasDeps |-> hasDeps, deps |-> deps, hasProps |-> hasProps, props |-> props]

NoParent == [present |-> FALSE, artifactId |-> Absent, hasVersion |-> FALSE, version |-> NoText]

Parent(a, hasV, v) == [present |-> TRUE, artifactId |-> a, hasVersion |-> hasV, version |-> v]

Dep(g, a, hasV, v) == [g |-> g, a |-> a, hasV |-> hasV, v |-> v]

Prop(n, t) == [name |-> n, text |-> t]

\* a parser that hands back whatever it could read of a malformed document
PomParsesLenient(F, p) == Readable(F, p) /\ Data(F, p).k = "pom"

\* ET.parse(pom_path) succeeds
PomParses(F, p) == Readable(F, p) /\ Data(F, p).k = "pom" /\ Data(F, p).ok

\* what root.find("m:...", ns) can see: nothing when the namespace is missing
PomView(F, p) ==
    LET d == Data(F, p)
    IN  IF d.ns THEN d
        ELSE PomData(TRUE, FALSE, NoParent, FALSE, << >>, FALSE, << >>)

----
(* core/project_analyzer.py: the probes.  A probe returns                  *)
(* [raised, type, details]; type None is the no-match result.              *)

Ret(t, d) == [raised |-> FALSE, type |-> t, details |-> d]

Raise(d) == [raised |-> TRUE, type |-> None, details |-> d]

NoMatch == Ret(None, EmptyDict)

BootGroup == "org.springframework.boot"

\* lines 261-273: flags derived from the major version
\* the thresholds moved by one: 1.x is taken for a modern version
BootVersionFlagsFromTwo(details, major) ==
    IF major = 1 \/ major = 2
    THEN Put(Put(details, "is_modern", TRUE), "security_priority", "medium")
    ELSE IF major >= 3
         THEN Put(Put(Put(details, "is_latest", TRUE), "requires_java17", TRUE),
                  "security_priority", "low")
    ELSE details

BootVersionFlags(details, major) ==
    IF major = 1 THEN Put(Put(details, "is_legacy", TRUE), "security_priority", "high")
    ELSE IF major = 2 THEN Put(Put(details, "is_modern", TRUE), "security_priority", "medium")
    ELSE IF major >= 3
         THEN Put(Put(Put(details, "is_latest", TRUE), "requires_java17", TRUE),
                  "security_priority", "low")
    ELSE details

\* lines 284-321: one dependency of a Spring Boot parent pom; [raised, details]
BootDepStep(details, d) ==
    IF d.g = Absent \/ d.a = Absent THEN [raised |-> FALSE, details |-> details]
    ELSE IF d.g = BootGroup /\ d.a = "spring-boot-starter-security"
         THEN [raised |-> FALSE, details |-> Put(details, "uses_spring_security", TRUE)]
    ELSE IF d.g = BootGroup /\ d.a = "spring-boot-starter-data-jpa"
         THEN [raised |-> FALSE, details |-> Put(details, "uses_spring_data_jpa", TRUE)]
    ELSE IF d.g = BootGroup /\ d.a = "spring-boot-starter-actuator"
         THEN [raised |-> FALSE, details |-> Put(details, "uses_actuator", TRUE)]
    ELSE IF d.g = BootGroup /\ d.a = "spring-boot-starter-webflux"
         THEN [raised |-> FALSE, details |-> Put(details, "uses_webflux", TRUE)]
    ELSE IF d.g # "" /\ Contains(d.g, "org.springframework.cloud")
         THEN [raised |-> FALSE, details |-> Put(details, "uses_spring_cloud", TRUE)]
    ELSE IF d.g = "mysql"
         THEN IF d.a = "" THEN [raised |-> TRUE, details |-> details]
              ELSE IF Contains(d.a, "mysql-connector")
                   THEN [raised |-> FALSE, details |-> Put(details, "database_mysql", TRUE)]
              ELSE [raised |-> FALSE, details |-> details]
    ELSE IF d.g = "org.postgresql"
         THEN IF d.a = "" THEN [raised |-> TRUE, details |-> details]
              ELSE IF Contains(d.a, "postgresql")
                   THEN [raised |-> FALSE, details |-> Put(details, "database_postgresql", TRUE)]
              ELSE [raised |-> FALSE, details |-> details]
    ELSE IF d.g = "com.h2database"
         THEN IF d.a = "" THEN [raised |-> TRUE, details |-> details]
              ELSE IF Contains(d.a, "h2")
                   THEN [raised |-> FALSE,
                         details |-> Put(Put(details, "database_h2", TRUE), "h2_console_risk", TRUE)]
              ELSE [raised |-> FALSE, details |-> details]
    ELSE [raised |-> FALSE, details |-> details]

RECURSIVE BootDepsLoop(_, _, _)
BootDepsLoop(deps, i, details) ==
    IF i > Len(deps) THEN [raised |-> FALSE, details |-> details]
    ELSE LET r == BootDepStep(details, deps[i])
         IN  IF r.raised THEN r ELSE BootDepsLoop(deps, i + 1, r.details)

\* lines 250-273: the version of the Spring Boot parent; [raised, details]
BootParentVersion(parent) ==
    IF ~parent.hasVersion THEN [raised |-> FALSE, details |-> EmptyDict]
    ELSE LET d1 == Put(EmptyDict, "spring_boot_version", parent.version)
         IN  IF parent.version = NoText THEN [raised |-> TRUE, details |-> d1]
             ELSE LET m == SearchInt(parent.version)
                  IN  IF m.found
                      THEN [raised |-> FALSE,
                            details |-> BootVersionFlags(
                                Put(d1, "spring_boot_major_version", m.value), m.value)]
                      ELSE [raised |-> FALSE, details |-> d1]

\* lines 326-341: the first spring-boot-starter dependency; "match", "raise" or "none"
RECURSIVE StarterLoop(_, _)
StarterLoop(deps, i) ==
    IF i > Len(deps) THEN "none"
    ELSE IF deps[i].g = BootGroup /\ deps[i].a # Absent
         THEN IF deps[i].a = "" THEN "raise"
              ELSE IF Contains(deps[i].a, "spring-boot-starter") THEN "match"
              ELSE StarterLoop(deps, i + 1)
    ELSE StarterLoop(deps, i + 1)

\* lines 335-340: properties.find("m:spring-boot.version", ns) is the first such child
BootVersionProp(pom, details) ==
    IF HasKey(details, "spring_boot_version") \/ ~pom.hasProps THEN details
    ELSE LET idx == {i \in 1..Len(pom.props) : pom.props[i].name = "spring-boot.version"}
         IN  IF idx = {} THEN details
             ELSE Put(details, "spring_boot_version",
                      pom.props[CHOOSE i \in idx : \A j \in idx : i <= j].text)

\* lines 240-346: the pom.xml part; st is "return" (matched), or "cont" (fall through,
\* also after a swallowed exception) with the details accumulated so far
BootPomPart(F, c, pp) ==
    LET p == Resolve(c, join(pp, <<"pom.xml">>))
    IN  IF ~(p = << >> \/ Exists(F, p)) THEN [st |-> "cont", details |-> EmptyDict]
        ELSE IF ~PomParses(F, p) THEN [st |-> "cont", details |-> EmptyDict]
        ELSE LET pom == PomView(F, p)
             IN  IF pom.parent.present /\ pom.parent.artifactId = "spring-boot-starter-parent"
                 THEN LET v == BootParentVersion(pom.parent)
                      IN  IF v.raised THEN [st |-> "cont", details |-> v.details]
                          ELSE IF ~pom.hasDeps THEN [st |-> "return", details |-> v.details]
                          ELSE LET l == BootDepsLoop(pom.deps, 1, v.details)
                               IN  IF l.raised THEN [st |-> "cont", details |-> l.details]
                                   ELSE [st |-> "return", details |-> l.details]
                 ELSE IF ~pom.hasDeps THEN [st |-> "cont", details |-> EmptyDict]
                 ELSE LET s == StarterLoop(pom.deps, 1)
                      IN  IF s = "match"
                          THEN [st |-> "return", details |-> BootVersionProp(pom, EmptyDict)]
                          ELSE [st |-> "cont", details |-> EmptyDict]

\* lines 348-357: build.gradle names the Spring Boot plugin
BootGradleMatch(F, c, pp) ==
    LET p == Resolve(c, join(pp, <<"build.gradle">>))
    IN  /\ Exists(F, p)
        /\ Readable(F, p)
        /\ TextOf(F, p).has \cap {"org.springframework.boot", "spring-boot-gradle-plugin"} # {}

\* lines 359-361
BootAppConfig(F, c, pp) ==
    \E n \in {"application.properties", "application.yml", "application.yaml"} :
        exists(F, c, join(pp, <<"src", "main", "resources", n>>))

check_spring_boot(F, c, pp) ==
    LET pr == BootPomPart(F, c, pp)
    IN  IF pr.st = "return" THEN Ret("springboot", pr.details)
        ELSE IF BootGradleMatch(F, c, pp) THEN Ret("springboot", pr.details)
        ELSE IF BootAppConfig(F, c, pp) THEN Ret("springboot", pr.details)
        ELSE NoMatch

check_gitlab_ci(F, c, pp) ==
    IF exists(F, c, join(pp, <<".gitlab-ci.yml">>)) THEN Ret("gitlab_ci", EmptyDict)
    ELSE NoMatch

----
(* os.walk *)

Last(q) == q[Len(q)]

IsChild(e, d) == Len(e.path) = Len(d) + 1 /\ SubSeq(e.path, 1, Len(d)) = d

\* names of the sub-directories (wantDir) or the files of directory d, in listing order
RECURSIVE ChildrenFrom(_, _, _, _)
ChildrenFrom(F, d, wantDir, i) ==
    IF i > Len(F) THEN << >>
    ELSE (IF IsChild(F[i], d) /\ F[i].dir = wantDir THEN <<Last(F[i].path)>> ELSE << >>)
         \o ChildrenFrom(F, d, wantDir, i + 1)

NotIn(q, S) == SelectSeq(q, LAMBDA n : n \notin S)

\* os.walk(top), top-down: the (root, dirs, files) triples in visiting order; prune is
\* the set of directory names the caller removes from dirs before descending
RECURSIVE WalkFrom(_, _, _, _)
RECURSIVE WalkSubs(_, _, _, _, _, _)
WalkFrom(F, s, p, prune) ==
    LET ds == ChildrenFrom(F, p, TRUE, 1)
        fl == ChildrenFrom(F, p, FALSE, 1)
    IN  <<[root |-> s, path |-> p, dirs |-> ds, files |-> fl]>>
        \o WalkSubs(F, s, p, NotIn(ds, prune), 1, prune)

WalkSubs(F, s, p, kept, i, prune) ==
    IF i > Len(kept) THEN << >>
    ELSE WalkFrom(F, join2(s, kept[i]), Append(p, kept[i]), prune)
         \o WalkSubs(F, s, p, kept, i + 1, prune)

walk(F, c, top, prune) ==
    IF IsDir(F, Resolve(c, top)) THEN WalkFrom(F, top, Resolve(c, top), prune) ELSE << >>

\* token t contains the string sub
TokHas(t, sub) ==
    CASE sub = "target" -> t \in {"target", "targets"}
      [] sub = "build" -> t \in {"build", "builds", "build.gradle"}
      [] sub = ".git" -> t \in {".git", ".github", ".gitlab-ci.yml"}
      [] sub = "node_modules" -> t \in {"node_modules"}
      [] OTHER -> FALSE

\* sub in s, for a path string s
StrHas(s, sub) == \E i \in 1..Len(s) : TokHas(s[i], sub)

HasAdj(f, a, b) == \E i \in 1..(Len(f) - 1) : f[i] = a /\ f[i + 1] = b

----
(* check_java_legacy *)

IsJsp(f) == endswith(f, ".jsp") \/ endswith(f, ".jspf") \/ endswith(f, ".jspx")

\* lines 39-40
IsSpringXml(f) ==
    /\ \/ HasAdj(f, "applicationContext", ".xml")
       \/ HasAdj(f, "spring-servlet", ".xml")
       \/ (Len(f) >= 2 /\ f[Len(f) - 1] = "-context" /\ f[Len(f)] = ".xml")
    /\ endswith(f, ".xml")

JspKey(n) == CASE n = 1 -> "jsp_file_1" [] n = 2 -> "jsp_file_2" [] n = 3 -> "jsp_file_3"

\* lines 33-44: the files of one directory; st = [details, jsp, xml]
RECURSIVE LegacyFiles(_, _, _, _)
LegacyFiles(root, files, i, st) ==
    IF i > Len(files) THEN st
    ELSE LET f == files[i]
             n == IF IsJsp(f) THEN st.jsp + 1 ELSE st.jsp
             d1 == IF IsJsp(f) /\ n <= 3 THEN Put(st.details, JspKey(n), join2(root, f))
                   ELSE st.details
         IN  IF IsSpringXml(f)
             THEN [details |-> Put(d1, "spring_xml_config", join2(root, f)), jsp |-> n, xml |-> TRUE]
             ELSE LegacyFiles(root, files, i + 1, [details |-> d1, jsp |-> n, xml |-> FALSE])

LegacySkip(root) ==
    StrHas(root, "target") \/ StrHas(root, "build") \/ StrHas(root, ".git")
        \/ StrHas(root, "node_modules")

\* lines 30-46
RECURSIVE LegacyWalk(_, _, _)
LegacyWalk(w, i, st) ==
    IF i > Len(w) THEN st
    ELSE IF LegacySkip(w[i].root) THEN LegacyWalk(w, i + 1, st)
    ELSE LET r == LegacyFiles(w[i].root, w[i].files, 1, st)
         IN  IF r.xml THEN r ELSE LegacyWalk(w, i + 1, r)

SpringVersionProps ==
    <<"spring.version", "spring-framework.version", "springframework.version",
      "spring.framework.version", "org.springframework.version">>

PropIdx(props, n) == {i \in 1..Len(props) : props[i].name = n}

\* lines 64-82: the first property name of the list that the pom defines
RECURSIVE LegacyProps(_, _, _)
LegacyProps(props, k, details) ==
    IF k > Len(SpringVersionProps) THEN details
    ELSE LET idx == PropIdx(props, SpringVersionProps[k])
         IN  IF idx # {}
             THEN Put(details, "spring_framework_version",
                      props[CHOOSE i \in idx : \A j \in idx : i <= j].text)
             ELSE LegacyProps(props, k + 1, details)

StartsWith1Dot(v) == Len(v) >= 2 /\ v[1] = "1" /\ v[2] = "."

VersionText(d) == IF d.hasV THEN d.v ELSE NoText

\* lines 99-148: one dependency; st = [raised, details, fromDeps, sec, mvc, orm, hib, struts]
LegacyDepStep(st, d) ==
    LET vt == VersionText(d)
    IN  IF d.g = Absent \/ d.a = Absent THEN st
        ELSE IF d.g = "org.springframework"
             THEN LET s1 == IF ~st.fromDeps /\ vt # NoText
                            THEN [st EXCEPT !.fromDeps = TRUE,
                                            !.details = Put(@, "spring_framework_version", vt)]
                            ELSE st
                  IN  IF d.a = "" THEN [s1 EXCEPT !.raised = TRUE]
                      ELSE IF Contains(d.a, "spring-security") THEN [s1 EXCEPT !.sec = TRUE]
                      ELSE IF Contains(d.a, "spring-webmvc") THEN [s1 EXCEPT !.mvc = TRUE]
                      ELSE IF Contains(d.a, "spring-orm") THEN [s1 EXCEPT !.orm = TRUE]
                      ELSE s1
        ELSE IF d.g = "org.hibernate" /\ d.a = "" THEN [st EXCEPT !.raised = TRUE]
        ELSE IF d.g = "org.hibernate" /\ Contains(d.a, "hibernate")
             THEN [st EXCEPT !.hib = TRUE,
                             !.details = IF vt # NoText THEN Put(@, "hibernate_version", vt) ELSE @]
        ELSE IF d.g # "org.apache.struts" /\ d.a = "" THEN [st EXCEPT !.raised = TRUE]
        ELSE IF d.g = "org.apache.struts" \/ Contains(d.a, "struts")
             THEN [st EXCEPT !.struts = TRUE,
                             !.details = IF vt # NoText
                                         THEN Put(Put(@, "struts_version", vt),
                                                  "struts_security_risk", TRUE)
                                         ELSE @]
        ELSE IF d.g = "log4j" /\ Contains(d.a, "log4j")
             THEN [st EXCEPT !.details =
                      LET d1 == Put(Put(@, "uses_log4j", TRUE), "log4j_version", vt)
                      IN  IF StartsWith1Dot(vt) THEN Put(d1, "log4j_security_risk", TRUE) ELSE d1]
        ELSE IF d.g = "mysql" /\ Contains(d.a, "mysql-connector")
             THEN [st EXCEPT !.details = Put(@, "database_mysql", TRUE)]
        ELSE IF d.g = "oracle" /\ Contains(d.a, "ojdbc")
             THEN [st EXCEPT !.details = Put(@, "database_oracle", TRUE)]
        ELSE IF d.g = "com.microsoft.sqlserver" /\ Contains(d.a, "mssql-jdbc")
             THEN [st EXCEPT !.details = Put(@, "database_sqlserver", TRUE)]
        ELSE st

RECURSIVE LegacyDepsLoop(_, _, _)
LegacyDepsLoop(deps, i, st) ==
    IF i > Len(deps) THEN st
    ELSE LET r == LegacyDepStep(st, deps[i])
         IN  IF r.raised THEN r ELSE LegacyDepsLoop(deps, i + 1, r)

\* lines 86-155: [raised, details]
LegacyDeps(pom, details) ==
    IF ~pom.hasDeps THEN [raised |-> FALSE, details |-> details]
    ELSE LET r == LegacyDepsLoop(pom.deps, 1,
                      [raised |-> FALSE, details |-> details, fromDeps |-> FALSE,
                       sec |-> FALSE, mvc |-> FALSE, orm |-> FALSE, hib |-> FALSE,
                       struts |-> FALSE])
         IN  IF r.raised THEN [raised |-> TRUE, details |-> r.details]
             ELSE [raised |-> FALSE,
                   details |-> Put(Put(Put(Put(Put(r.details,
                       "uses_spring_security", r.sec), "uses_spring_webmvc", r.mvc),
                       "uses_spring_orm", r.orm), "uses_hibernate", r.hib),
                       "uses_struts", r.struts)]

\* re.search(r'(\d+)\.(\d+)', s): [found, major, minor], the leftmost match
SearchMajorMinor(s) ==
    LET starts == {i \in 1..Len(s) :
                      /\ s[i] \in Digits
                      /\ RunEnd(s, i) + 1 <= Len(s)
                      /\ s[RunEnd(s, i)] = "."
                      /\ s[RunEnd(s, i) + 1] \in Digits}
    IN  IF starts = {} THEN [found |-> FALSE, major |-> 0, minor |-> 0]
        ELSE LET b == CHOOSE i \in starts : \A j \in starts : i <= j
                 e == RunEnd(s, b)
             IN  [found |-> TRUE, major |-> IntOf(s, b, e, 0),
                  minor |-> IntOf(s, e + 1, RunEnd(s, e + 1), 0)]

\* the assessment whose first two thresholds include their bounds
LegacyPriorityInclusive(details, major, minor) ==
    IF major = 1 \/ (major = 2 /\ minor <= 5)
    THEN Put(Put(details, "security_priority", "critical"), "is_very_legacy", TRUE)
    ELSE IF major = 2 \/ (major = 3 /\ minor <= 2)
         THEN Put(Put(details, "security_priority", "high"), "is_legacy", TRUE)
    ELSE IF major = 3
         THEN Put(Put(details, "security_priority", "medium"), "is_old", TRUE)
    ELSE Put(details, "security_priority", "low")

\* lines 168-182
LegacyPriority(details, major, minor) ==
    IF major = 1 \/ (major = 2 /\ minor < 5)
    THEN Put(Put(details, "security_priority", "critical"), "is_very_legacy", TRUE)
    ELSE IF major = 2 \/ (major = 3 /\ minor < 2)
         THEN Put(Put(details, "security_priority", "high"), "is_legacy", TRUE)
    ELSE IF major = 3
         THEN Put(Put(details, "security_priority", "medium"), "is_old", TRUE)
    ELSE Put(details, "security_priority", "low")

\* lines 158-182
LegacyVersion(details) ==
    IF ~HasKey(details, "spring_framework_version") THEN details
    ELSE IF details["spring_framework_version"] = NoText THEN details
    ELSE LET m == SearchMajorMinor(details["spring_framework_version"])
         IN  IF ~m.found THEN details
             ELSE LegacyPriority(Put(Put(details, "spring_major_version", m.major),
                                     "spring_minor_version", m.minor), m.major, m.minor)

\* lines 53-187: pom.xml
LegacyPom(F, c, pp, details) ==
    LET p == Resolve(c, join(pp, <<"pom.xml">>))
    IN  IF ~(p = << >> \/ Exists(F, p)) THEN details
        ELSE LET d0 == Put(details, "is_maven", TRUE)
             IN  IF ~PomParses(F, p) THEN d0
                 ELSE LET pom == PomView(F, p)
                          d1 == IF pom.hasProps THEN LegacyProps(pom.props, 1, d0) ELSE d0
                          r == LegacyDeps(pom, d1)
                      IN  IF r.raised THEN r.details ELSE LegacyVersion(r.details)

\* lines 190-204: build.gradle
LegacyGradle(F, c, pp, details) ==
    LET p == Resolve(c, join(pp, <<"build.gradle">>))
    IN  IF ~(p = << >> \/ Exists(F, p)) THEN details
        ELSE LET d0 == Put(details, "is_gradle", TRUE)
             IN  IF ~Readable(F, p) THEN d0
                 ELSE IF HasKey(TextOf(F, p).vals, "springframework")
                      THEN Put(d0, "spring_framework_version", TextOf(F, p).vals["springframework"])
                 ELSE d0

WebXmlData(ok, version) == [k |-> "webxml", ok |-> ok, version |-> version]

\* float(s) for s of the form digits or digits.digits; [ok, ip, lt5] where ip is the
\* integer part and lt5 tells that the fraction is below one half
FloatOf(s) ==
    LET e == RunEnd(s, 1)
    IN  IF e = 1 THEN [ok |-> FALSE, ip |-> 0, lt5 |-> TRUE]
        ELSE IF e > Len(s) THEN [ok |-> TRUE, ip |-> IntOf(s, 1, e, 0), lt5 |-> TRUE]
        ELSE IF s[e] = "." /\ RunEnd(s, e + 1) > Len(s)
             THEN [ok |-> TRUE, ip |-> IntOf(s, 1, e, 0),
                   lt5 |-> (e + 1 > Len(s) \/ DigitVal(s[e + 1]) < 5)]
        ELSE [ok |-> FALSE, ip |-> 0, lt5 |-> TRUE]

\* lines 207-226: web.xml
LegacyWebXml(F, webxml, details) ==
    IF ~(Readable(F, webxml) /\ Data(F, webxml).k = "webxml" /\ Data(F, webxml).ok) THEN details
    ELSE LET v == Data(F, webxml).version
         IN  IF v = NoText THEN details
             ELSE LET d0 == Put(details, "servlet_version", v)
                      f == FloatOf(v)
                  IN  IF ~f.ok THEN d0
                      ELSE IF f.ip < 2 \/ (f.ip = 2 /\ f.lt5)
                           THEN Put(d0, "servlet_very_legacy", TRUE)
                      ELSE IF f.ip < 3 THEN Put(d0, "servlet_legacy", TRUE)
                      ELSE d0

check_java_legacy(F, c, pp) ==
    LET w1 == join(pp, <<"src", "main", "webapp", "WEB-INF">>)
        w2 == join(pp, <<"WebContent", "WEB-INF">>)
    IN  IF ~isdir(F, c, w1) /\ ~isdir(F, c, w2) THEN NoMatch
        ELSE LET web_inf_path == IF isdir(F, c, w1) THEN w1 ELSE w2
                 webxml == Resolve(c, join(web_inf_path, <<"web.xml">>))
                 has_web_xml == Exists(F, webxml)
             IN  Bind(LegacyWalk(walk(F, c, pp, {}), 1,
                          [details |-> Put(EmptyDict, "web_inf_path", web_inf_path),
                           jsp |-> 0, xml |-> FALSE]), LAMBDA r :
                   IF ~(has_web_xml \/ r.xml) THEN NoMatch
                   ELSE Bind(Put(Put(r.details, "jsp_files_count", r.jsp),
                                 "spring_xml_found", r.xml), LAMBDA d0 :
                        Bind(LegacyPom(F, c, pp, d0), LAMBDA d1 :
                        Bind(LegacyGradle(F, c, pp, d1), LAMBDA d2 :
                          Ret("java_legacy_spring",
                              IF has_web_xml THEN LegacyWebXml(F, webxml, d2) ELSE d2)))))

----
(* JSON files, check_angular, check_vue *)

\* JSON values of a dependency table: a string is a sequence of characters; NoneV is
\* null (and a missing key), NonStr a number or another non-string value
NoneV == <<"<None>">>

NonStr == <<"<nonstring>">>

Truthy(v) == v # << >> /\ v # NoneV

\* a "dependencies" / "devDependencies" member: null, or an object (absent = empty object)
Sec(d) == [null |-> FALSE, d |-> d]

NullSec == [null |-> TRUE, d |-> EmptyDict]

\* shape: "invalid" (not JSON), "falsy" (null, {}, [], 0, ""), "nondict" (a non-empty
\* list, a number, a string), "dict" (a non-empty object)
JsonData(shape, deps, dev, projectsDict, schema) ==
    [k |-> "json", shape |-> shape, deps |-> deps, dev |-> dev,
     projectsDict |-> projectsDict, schema |-> schema]

\* core/utils.py load_json_file: "raise", "none", "falsy", "nondict" or "dict"
load_json_file(F, p) ==
    IF ~Exists(F, p) THEN "none"
    ELSE IF ~IsFile(F, p) THEN "none"
    ELSE IF Data(F, p).k = "bad" THEN "none"
    ELSE IF Data(F, p).k = "binary" THEN "raise"
    ELSE IF Data(F, p).k # "json" THEN "none"
    ELSE IF Data(F, p).shape = "invalid" THEN "none"
    ELSE Data(F, p).shape

\* "k in dependencies or k in dev_dependencies": "yes", "no" or "raise"
In2(k, deps, dev) ==
    IF deps.null THEN "raise"
    ELSE IF k \in DOMAIN deps.d THEN "yes"
    ELSE IF dev.null THEN "raise"
    ELSE IF k \in DOMAIN dev.d THEN "yes"
    ELSE "no"

SecGet(sec, k) == IF k \in DOMAIN sec.d THEN sec.d[k] ELSE NoneV

\* "dependencies.get(k) or dev_dependencies.get(k)"; deps is an object here
GetOr(k, deps, dev) ==
    IF Truthy(SecGet(deps, k)) THEN [raised |-> FALSE, v |-> SecGet(deps, k)]
    ELSE IF dev.null THEN [raised |-> TRUE, v |-> NoneV]
    ELSE [raised |-> FALSE, v |-> SecGet(dev, k)]

\* schema.split("/")[-1].replace(".json", "")
SchemaTail(schema) == SelectSeq(Last(Split(schema)), LAMBDA t : t # ".json")

SchemaModern(schema) == \E i \in 1..Len(schema) : schema[i] \in {"15", "16", "17", "18"}

\* lines 378-391: angular.json; [raised, details]
AngularJsonPart(F, c, pp) ==
    LET p == Resolve(c, join(pp, <<"angular.json">>))
        none == [raised |-> FALSE, details |-> EmptyDict]
    IN  IF ~(p = << >> \/ Exists(F, p)) THEN none
        ELSE LET l == load_json_file(F, p)
             IN  IF l = "raise" \/ l = "nondict" THEN [raised |-> TRUE, details |-> EmptyDict]
                 ELSE IF l # "dict" THEN none
                 ELSE IF ~Data(F, p).projectsDict THEN none
                 ELSE IF Data(F, p).schema \in {NonStr, NoneV}
                      THEN [raised |-> TRUE, details |-> EmptyDict]
                 ELSE LET sc == Data(F, p).schema
                          d1 == Put(EmptyDict, "angular_cli_version", SchemaTail(sc))
                      IN  [raised |-> FALSE,
                           details |-> IF SchemaModern(sc)
                                       THEN Put(d1, "angular_cli_modern", TRUE) ELSE d1]

\* lines 405-420
AngularVersionFlags(details, major) ==
    LET d1 == Put(details, "angular_major_version", major)
        d2 == IF major >= 14 THEN Put(d1, "supports_standalone", TRUE) ELSE d1
        d3 == IF major >= 16 THEN Put(d2, "supports_signals", TRUE) ELSE d2
    IN  IF major >= 17 THEN Put(d3, "new_control_flow", TRUE) ELSE d3

\* lines 423-434: [raised, details]
AngularFeatures(details, deps, dev) ==
    LET m == In2("@angular/material", deps, dev)
        n == In2("@ngrx/store", deps, dev)
        w == In2("@angular/pwa", deps, dev)
        d1 == IF m = "yes" THEN Put(details, "uses_angular_material", TRUE) ELSE details
        d2 == IF n = "yes" THEN Put(d1, "uses_ngrx", TRUE) ELSE d1
        d3 == IF w = "yes" THEN Put(d2, "is_pwa", TRUE) ELSE d2
    IN  IF m = "raise" THEN [raised |-> TRUE, details |-> details]
        ELSE IF n = "raise" THEN [raised |-> TRUE, details |-> d1]
        ELSE IF w = "raise" THEN [raised |-> TRUE, details |-> d2]
        ELSE [raised |-> FALSE,
              details |-> IF {"@nguniversal/express-engine", "@angular/ssr"} \cap DOMAIN deps.d # {}
                          THEN Put(d3, "has_ssr", TRUE) ELSE d3]

check_angular(F, c, pp) ==
    LET a == AngularJsonPart(F, c, pp)
        p == Resolve(c, join(pp, <<"package.json">>))
    IN  IF a.raised THEN Raise(a.details)
        ELSE IF ~(p = << >> \/ Exists(F, p)) THEN NoMatch
        ELSE LET l == load_json_file(F, p)
             IN  IF l = "raise" \/ l = "nondict" THEN Raise(a.details)
                 ELSE IF l # "dict" THEN NoMatch
                 ELSE LET deps == Data(F, p).deps
                          dev == Data(F, p).dev
                          has == In2("@angular/core", deps, dev)
                      IN  IF has = "raise" THEN Raise(a.details)
                          ELSE IF has = "no" THEN NoMatch
                          ELSE LET g == GetOr("@angular/core", deps, dev)
                                   d1 == Put(a.details, "angular_core_version", g.v)
                               IN  IF g.raised THEN Raise(a.details)
                                   ELSE IF g.v \in {NoneV, NonStr} THEN Raise(d1)
                                   ELSE LET m == SearchInt(g.v)
                                            d2 == IF m.found THEN AngularVersionFlags(d1, m.value)
                                                  ELSE d1
                                            f == AngularFeatures(d2, deps, dev)
                                        IN  IF f.raised THEN Raise(f.details)
                                            ELSE Ret("angular", f.details)

IsVue(f) == endswith(f, ".vue")

\* lines 467-473: some visited directory holds a .vue file
VueWalk(w) ==
    \E i \in 1..Len(w) :
        /\ ~(StrHas(w[i].root, "node_modules") \/ StrHas(w[i].root, ".git"))
        /\ \E j \in 1..Len(w[i].files) : IsVue(w[i].files[j])

\* lines 448-459: package.json; st is "return", "raise" or "cont"
VuePackagePart(F, c, pp) ==
    LET p == Resolve(c, join(pp, <<"package.json">>))
        cont == [st |-> "cont", details |-> EmptyDict]
    IN  IF ~(p = << >> \/ Exists(F, p)) THEN cont
        ELSE LET l == load_json_file(F, p)
             IN  IF l = "raise" \/ l = "nondict" THEN [st |-> "raise", details |-> EmptyDict]
                 ELSE IF l # "dict" THEN cont
                 ELSE LET deps == Data(F, p).deps
                          dev == Data(F, p).dev
                          has == In2("vue", deps, dev)
                      IN  IF has = "raise" THEN [st |-> "raise", details |-> EmptyDict]
                          ELSE IF has = "no" THEN cont
                          ELSE LET g == GetOr("vue", deps, dev)
                                   d1 == Put(EmptyDict, "vue_version", g.v)
                                   n == In2("nuxt", deps, dev)
                               IN  IF g.raised THEN [st |-> "raise", details |-> EmptyDict]
                                   ELSE IF n = "raise" THEN [st |-> "raise", details |-> d1]
                                   ELSE [st |-> "return",
                                         details |-> IF n = "yes" THEN Put(d1, "is_nuxt", TRUE)
                                                     ELSE d1]

check_vue(F, c, pp) ==
    LET r == VuePackagePart(F, c, pp)
    IN  IF r.st = "raise" THEN Raise(r.details)
        ELSE IF r.st = "return" THEN Ret("vue", r.details)
        ELSE IF \E n \in {"vue.config.js", "vite.config.js", "nuxt.config.js"} :
                    exists(F, c, join(pp, <<n>>))
             THEN Ret("vue", r.details)
        ELSE IF VueWalk(walk(F, c, pp, {})) THEN Ret("vue", r.details)
        ELSE NoMatch

----
(* detect_python_version *)

\* end (exclusive) of a match of \d+\.\d+\.?\d* that starts at i, 0 when there is none
MatchVer(s, i) ==
    IF ~(i <= Len(s) /\ s[i] \in Digits) THEN 0
    ELSE Bind(RunEnd(s, i), LAMBDA e1 :
           IF ~(e1 + 1 <= Len(s) /\ s[e1] = "." /\ s[e1 + 1] \in Digits) THEN 0
           ELSE Bind(RunEnd(s, e1 + 1), LAMBDA e2 :
                  RunEnd(s, IF e2 <= Len(s) /\ s[e2] = "." THEN e2 + 1 ELSE e2)))

\* re.search(r'(\d+\.\d+\.?\d*)', s): [found, v]
SearchVer(s) ==
    Bind({i \in 1..Len(s) : MatchVer(s, i) # 0}, LAMBDA starts :
      IF starts = {} THEN [found |-> FALSE, v |-> << >>]
      ELSE Bind(CHOOSE i \in starts : \A j \in starts : i <= j, LAMBDA b :
             [found |-> TRUE, v |-> SubSeq(s, b, MatchVer(s, b) - 1)]))

\* re.search(r'^(\d+\.\d+\.?\d*)', s)
MatchVerAtStart(s) ==
    Bind(MatchVer(s, 1), LAMBDA e :
      IF e = 0 THEN [found |-> FALSE, v |-> << >>]
      ELSE [found |-> TRUE, v |-> SubSeq(s, 1, e - 1)])

\* one past the run of blanks of s that starts at i
RECURSIVE BlankEnd(_, _)
BlankEnd(s, i) == IF i <= Len(s) /\ s[i] = " " THEN BlankEnd(s, i + 1) ELSE i

\* re.search(r'Python\s+(\d+\.\d+\.?\d*)', s)
SearchPythonVer(s) ==
    LET Ends(i) == {b \in (i + 2)..BlankEnd(s, i + 1) : MatchVer(s, b) # 0}
    IN  Bind({i \in 1..Len(s) : s[i] = "Python" /\ BlankEnd(s, i + 1) > i + 1 /\ Ends(i) # {}},
             LAMBDA starts :
               IF starts = {} THEN [found |-> FALSE, v |-> << >>]
               ELSE Bind(Ends(CHOOSE x \in starts : \A y \in starts : x <= y), LAMBDA bs :
                    Bind(CHOOSE x \in bs : \A y \in bs : y <= x, LAMBDA b :
                      [found |-> TRUE, v |-> SubSeq(s, b, MatchVer(s, b) - 1)])))

\* s.split('.')
RECURSIVE SplitDot(_, _, _)
SplitDot(s, i, cur) ==
    IF i > Len(s) THEN <<cur>>
    ELSE IF s[i] = "." THEN <<cur>> \o SplitDot(s, i + 1, << >>)
    ELSE SplitDot(s, i + 1, Append(cur, s[i]))

\* int(s): [ok, value]
PyInt(s) ==
    IF Len(s) > 0 /\ \A i \in 1..Len(s) : s[i] \in Digits
    THEN [ok |-> TRUE, value |-> IntOf(s, 1, Len(s) + 1, 0)]
    ELSE [ok |-> FALSE, value |-> 0]

\* version_parts = full_version.split('.') and the two int() conversions; [raised, details]
VersionParts(details, full_version) ==
    Bind(details, LAMBDA d0 :
    Bind(SplitDot(full_version, 1, << >>), LAMBDA parts :
    Bind(PyInt(parts[1]), LAMBDA a :
      IF ~a.ok THEN [raised |-> TRUE, details |-> d0]
      ELSE Bind(Put(d0, "python_major_version", a.value), LAMBDA d1 :
             IF Len(parts) < 2 THEN [raised |-> FALSE, details |-> d1]
             ELSE Bind(PyInt(parts[2]), LAMBDA b :
                    IF ~b.ok THEN [raised |-> TRUE, details |-> d1]
                    ELSE [raised |-> FALSE,
                          details |-> Put(d1, "python_minor_version", b.value)])))))

\* the outcome of subprocess.run: kind is "ok" (return code 0), "nonzero", "timeout",
\* "notfound" (FileNotFoundError) or "oserror"; out is the stripped output
Outcome(kind, out) == [kind |-> kind, out |-> out]

\* an executable file and how it behaves when launched; kind "hangs" is a process that
\* never answers
ExeData(run) == [k |-> "exe", run |-> run]

RunFile(F, p) == IF IsFile(F, p) /\ Data(F, p).k = "exe" THEN Data(F, p).run
                 ELSE Outcome("oserror", << >>)

\* timeout=5 of the three subprocess.run calls
ProbeTimeout == 5

\* subprocess.run without its timeout: the caller waits for a process that never answers
LaunchUnbounded(cmd, beh) ==
    [cmd |-> cmd, beh |-> beh.kind, kind |-> beh.kind, out |-> beh.out, waited |-> 0]

\* subprocess.run(cmd, timeout=5): a process that never answers is abandoned after the
\* timeout and TimeoutExpired is raised; beh records how the process behaved
Launch(cmd, beh) ==
    IF beh.kind = "hangs"
    THEN [cmd |-> cmd, beh |-> beh.kind, kind |-> "timeout", out |-> << >>,
          waited |-> ProbeTimeout]
    ELSE [cmd |-> cmd, beh |-> beh.kind, kind |-> beh.kind, out |-> beh.out, waited |-> 0]

venv_paths == <<".venv", "venv", "env", ".env">>

\* lines 510-561: [found, details, runs]; runs lists the processes launched
RECURSIVE VenvLoop(_, _, _, _, _)
VenvLoop(F, c, pp, i, runs) ==
    IF i > Len(venv_paths) THEN [found |-> FALSE, details |-> EmptyDict, runs |-> runs]
    ELSE LET venv_dir == join(pp, <<venv_paths[i]>>)
             venv_python == join(venv_dir, <<"bin", "python">>)
             p == Resolve(c, venv_python)
         IN  IF ~Exists(F, p) THEN VenvLoop(F, c, pp, i + 1, runs)
             ELSE LET r == Launch(venv_python, RunFile(F, p))
                      m == SearchPythonVer(r.out)
                  IN  IF r.kind = "ok" /\ m.found
                      THEN [found |-> TRUE, runs |-> Append(runs, r),
                            details |-> VersionParts(
                                Put(Put(Put(Put(Put(EmptyDict,
                                    "python_version", m.v),
                                    "python_path", abspath(c, venv_python)),
                                    "python_source", "venv"),
                                    "is_venv", TRUE),
                                    "venv_path", abspath(c, venv_dir)), m.v).details]
                      ELSE VenvLoop(F, c, pp, i + 1, Append(runs, r))

ReadText(F, c, s) ==
    LET p == Resolve(c, s)
    IN  IF Exists(F, p) /\ Readable(F, p) THEN [ok |-> TRUE, t |-> TextOf(F, p)]
        ELSE [ok |-> FALSE, t |-> TextData({}, EmptyDict)]

Val(t, k) == IF HasKey(t.vals, k) THEN [found |-> TRUE, v |-> t.vals[k]]
             ELSE [found |-> FALSE, v |-> << >>]

SourceDetails(details, v, src) ==
    Put(Put(Put(details, "python_version", v), "python_source", src), "is_venv", FALSE)

\* "return" after the version was split, "cont" after a swallowed ValueError
Versioned(v) == Bind(v, LAMBDA r : [st |-> IF r.raised THEN "cont" ELSE "return",
                                    details |-> r.details])

\* lines 566-592: .python-version; st is "return" or "cont"
PyenvPart(F, c, pp, details) ==
    LET r == ReadText(F, c, join(pp, <<".python-version">>))
        m == MatchVerAtStart(Val(r.t, "content").v)
    IN  IF r.ok /\ m.found
        THEN Versioned(VersionParts(SourceDetails(details, m.v, "pyenv"), m.v))
        ELSE [st |-> "cont", details |-> details]

\* lines 595-631: pyproject.toml
PyprojectPart(F, c, pp, details) ==
    LET r == ReadText(F, c, join(pp, <<"pyproject.toml">>))
        spec == IF Val(r.t, "requires-python").found THEN Val(r.t, "requires-python")
                ELSE Val(r.t, "poetry-python")
        m == SearchVer(spec.v)
    IN  IF r.ok /\ spec.found /\ m.found
        THEN Versioned(VersionParts(
                     SourceDetails(Put(details, "python_version_required", spec.v),
                                   m.v, "pyproject"), m.v))
        ELSE [st |-> "cont", details |-> details]

\* lines 634-661: Pipfile
PipfilePart(F, c, pp, details) ==
    LET r == ReadText(F, c, join(pp, <<"Pipfile">>))
        m == Val(r.t, "python_version")
    IN  IF r.ok /\ m.found
        THEN Versioned(VersionParts(SourceDetails(details, m.v, "pipfile"), m.v))
        ELSE [st |-> "cont", details |-> details]

\* lines 664-695: setup.py
SetupPyPart(F, c, pp, details) ==
    LET r == ReadText(F, c, join(pp, <<"setup.py">>))
        spec == Val(r.t, "python_requires")
        m == SearchVer(spec.v)
    IN  IF r.ok /\ spec.found /\ m.found
        THEN Versioned(VersionParts(
                     SourceDetails(Put(details, "python_version_required", spec.v),
                                   m.v, "setup.py"), m.v))
        ELSE [st |-> "cont", details |-> details]

python_commands == <<"python3", "python">>

\* lines 698-757: the system interpreter; S maps a command to its outcome, and
\* S.which maps a command to the outcome of "which <command>"
RECURSIVE SystemLoop(_, _, _, _)
SystemLoop(S, i, details, runs) ==
    IF i > Len(python_commands) THEN [details |-> details, runs |-> runs]
    ELSE LET cmd == python_commands[i]
             r == Launch(<<cmd>>, S.run[cmd])
             m == SearchPythonVer(r.out)
             w == Launch(<<"which", " ", cmd>>, S.which[cmd])
         IN  IF ~(r.kind = "ok" /\ m.found)
             THEN SystemLoop(S, i + 1, details, Append(runs, r))
             ELSE IF w.kind \notin {"ok", "nonzero"}
             THEN SystemLoop(S, i + 1, details, Append(Append(runs, r), w))
             ELSE LET path == IF w.kind = "ok" /\ w.out # << >> THEN w.out ELSE <<cmd>>
                      v == VersionParts(
                               Put(SourceDetails(details, m.v, "system"), "python_path", path),
                               m.v)
                  IN  [details |-> v.details, runs |-> Append(Append(runs, r), w)]

VersionFound(r, runs) == [details |-> r.details, runs |-> runs]

\* [details, runs]
detect_python_version(F, S, c, pp) ==
    Bind(VenvLoop(F, c, pp, 1, << >>), LAMBDA a :
      IF a.found THEN VersionFound(a, a.runs)
      ELSE Bind(PyenvPart(F, c, pp, EmptyDict), LAMBDA b :
        IF b.st = "return" THEN VersionFound(b, a.runs)
        ELSE Bind(PyprojectPart(F, c, pp, b.details), LAMBDA d :
          IF d.st = "return" THEN VersionFound(d, a.runs)
          ELSE Bind(PipfilePart(F, c, pp, d.details), LAMBDA e :
            IF e.st = "return" THEN VersionFound(e, a.runs)
            ELSE Bind(SetupPyPart(F, c, pp, e.details), LAMBDA f :
              IF f.st = "return" THEN VersionFound(f, a.runs)
              ELSE SystemLoop(S, 1, f.details, a.runs))))))

----
(* check_python *)

indicators ==
    <<"requirements.txt", "setup.py", "pyproject.toml", "Pipfile", "poetry.lock",
      "manage.py", "app.py", "main.py">>

PyPrune == {<<"venv">>, <<".venv">>, <<"env">>, <<"__pycache__">>, <<".git">>, <<"node_modules">>}

Count(q, Test(_)) == Len(SelectSeq(q, Test))

\* file.endswith('.py'), for a file name f
IsPy(f) ==
    \/ endswith(f, ".py")
    \/ (f # << >> /\ Last(f) \in {"setup.py", "manage.py", "app.py", "main.py", "wsgi.py",
                                   "asgi.py", "conftest.py"})

RECURSIVE SumPy(_, _)
SumPy(w, i) ==
    IF i > Len(w) THEN 0
    ELSE Count(w[i].files, IsPy) + SumPy(w, i + 1)

\* lines 782-793: at least three .py files outside the pruned directories
PyFilesFound(F, c, pp) == SumPy(walk(F, c, pp, PyPrune), 1) >= 3

SettingsName == <<"settings", ".py">>

\* lines 819-840: what settings.py tells
DjangoSettings(F, c, details, path) ==
    LET r == ReadText(F, c, path)
        h == r.t.has
        d1 == IF "DEBUG = True" \in h THEN Put(details, "debug_enabled", TRUE) ELSE details
        d2 == IF "sqlite3" \in h THEN Put(d1, "database_sqlite", TRUE)
              ELSE IF "postgresql" \in h \/ "psycopg" \in h
                   THEN Put(d1, "database_postgresql", TRUE)
              ELSE IF "mysql" \in h THEN Put(d1, "database_mysql", TRUE)
              ELSE d1
    IN  IF ~r.ok THEN details
        ELSE IF "SECRET_KEY literal" \in h THEN Put(d2, "hardcoded_secret_key", TRUE)
        ELSE d2

\* lines 813-841: the first visited directory that holds a settings.py
DjangoPart(F, c, pp, details) ==
    LET w == walk(F, c, pp, {})
        idx == {i \in 1..Len(w) : \E j \in 1..Len(w[i].files) : w[i].files[j] = SettingsName}
    IN  IF idx = {} THEN details
        ELSE LET i == CHOOSE x \in idx : \A y \in idx : x <= y
                 path == join2(w[i].root, SettingsName)
             IN  DjangoSettings(F, c, Put(details, "django_settings_path", path), path)

\* lines 844-859: st = [details, fw]
FlaskPart(F, c, pp, st) ==
    LET r == ReadText(F, c, join(pp, <<"app.py">>))
        h == r.t.has
    IN  IF r.ok /\ ({"from flask import", "import flask"} \cap h # {})
        THEN LET d1 == Put(st.details, "is_flask", TRUE)
             IN  [details |-> IF {"debug=True", "app.debug = True"} \cap h # {}
                              THEN Put(d1, "debug_enabled", TRUE) ELSE d1,
                  fw |-> Append(st.fw, "Flask")]
        ELSE st

\* lines 862-871
FastApiPart(F, c, pp, st) ==
    LET r == ReadText(F, c, join(pp, <<"main.py">>))
    IN  IF r.ok /\ ({"from fastapi import", "import fastapi"} \cap r.t.has # {})
        THEN [details |-> Put(st.details, "is_fastapi", TRUE), fw |-> Append(st.fw, "FastAPI")]
        ELSE st

\* a line of requirements.txt, lower-cased: the package name, whether "==" follows it,
\* and the text after the operator; pkg "" is a blank line, "#" a comment
Req(pkg, pinned, ver) == [pkg |-> pkg, pinned |-> pinned, ver |-> ver]

\* the longest prefix of s made of digits and dots
RECURSIVE NumPrefix(_, _)
NumPrefix(s, i) ==
    IF i <= Len(s) /\ (s[i] \in Digits \/ s[i] = ".") THEN <<s[i]>> \o NumPrefix(s, i + 1)
    ELSE << >>

\* name + "==" occurs in the line
ReqPins(r, name) ==
    /\ r.pinned
    /\ CASE name = "django" -> r.pkg \in {"django", "pydjango"}
         [] name = "flask" -> r.pkg \in {"flask"}
         [] name = "fastapi" -> r.pkg \in {"fastapi"}
         [] OTHER -> FALSE

ReqRisky(r) == r.pkg \in {"pycrypto", "pycryptodome", "md5", "pickle5", "cloudpickle"}

\* lines 889-904: one requirement; st = [details, risky]
ReqStep(st, r) ==
    LET v == NumPrefix(r.ver, 1)
        pin(name, key) == IF v # << >> THEN [st EXCEPT !.details = Put(@, key, v)] ELSE st
    IN  IF ReqPins(r, "django") THEN pin("django", "django_version")
        ELSE IF ReqPins(r, "flask") THEN pin("flask", "flask_version")
        ELSE IF ReqPins(r, "fastapi") THEN pin("fastapi", "fastapi_version")
        ELSE IF ReqRisky(r) THEN [st EXCEPT !.risky = Append(@, r)]
        ELSE st

RECURSIVE ReqLoop(_, _, _)
ReqLoop(reqs, i, st) ==
    IF i > Len(reqs) THEN st ELSE ReqLoop(reqs, i + 1, ReqStep(st, reqs[i]))

\* lines 874-911
RequirementsPart(F, c, pp, details) ==
    LET r == ReadText(F, c, join(pp, <<"requirements.txt">>))
        lines == IF HasKey(r.t.vals, "lines") THEN r.t.vals["lines"] ELSE << >>
        requirements == SelectSeq(lines, LAMBDA l : l.pkg # "" /\ l.pkg # "#")
        st == ReqLoop(requirements, 1,
                      [details |-> Put(details, "requirements", requirements), risky |-> << >>])
    IN  IF ~r.ok THEN details
        ELSE IF st.risky # << >> THEN Put(st.details, "risky_packages", st.risky)
        ELSE st.details

AddDjango(st) ==
    IF \E i \in 1..Len(st.fw) : st.fw[i] = "Django" THEN st
    ELSE [details |-> Put(st.details, "is_django", TRUE), fw |-> Append(st.fw, "Django")]

\* lines 914-930
PoetryPart(F, c, pp, st) ==
    LET r == ReadText(F, c, join(pp, <<"pyproject.toml">>))
        d1 == Put(st.details, "is_poetry", TRUE)
    IN  IF ~r.ok THEN st
        ELSE IF Val(r.t, "django").found
             THEN AddDjango([details |-> Put(d1, "django_version", Val(r.t, "django").v),
                             fw |-> st.fw])
        ELSE [details |-> d1, fw |-> st.fw]

\* lines 933-947
PipenvPart(F, c, pp, st) ==
    LET r == ReadText(F, c, join(pp, <<"Pipfile">>))
        d1 == Put(st.details, "is_pipenv", TRUE)
    IN  IF ~r.ok THEN st
        ELSE IF "django" \in r.t.has THEN AddDjango([details |-> d1, fw |-> st.fw])
        ELSE [details |-> d1, fw |-> st.fw]

\* lines 950-966: has_<name> keys
RECURSIVE MarkFiles(_, _, _, _, _)
MarkFiles(F, c, pp, names, details) ==
    IF names = << >> THEN details
    ELSE MarkFiles(F, c, pp, Tail(names),
                   IF exists(F, c, join(pp, <<Head(names)[1]>>))
                   THEN Put(details, Head(names)[2], TRUE) ELSE details)

PyMarkFiles ==
    <<  <<"wsgi.py", "has_wsgi">>, <<"asgi.py", "has_asgi">>, <<"pytest.ini", "has_pytest">>,
        <<"tox.ini", "has_tox">>, <<"conftest.py", "has_conftest">>,
        <<"Dockerfile", "has_docker">> >>

\* the assessment that looks at the secret key and the risky packages first
PySecurityPriorityMediumFirst(details) ==
    IF HasKey(details, "hardcoded_secret_key") \/ HasKey(details, "risky_packages")
    THEN "medium"
    ELSE IF HasKey(details, "debug_enabled") THEN "high"
    ELSE "low"

\* lines 983-989
PySecurityPriority(details) ==
    IF HasKey(details, "debug_enabled") THEN "high"
    ELSE IF HasKey(details, "hardcoded_secret_key") \/ HasKey(details, "risky_packages")
         THEN "medium"
    ELSE "low"

check_python(F, S, c, pp) ==
    LET found_indicators ==
            SelectSeq(indicators, LAMBDA n : exists(F, c, join(pp, <<n>>)))
        Found(n) == \E i \in 1..Len(found_indicators) : found_indicators[i] = n
        When(n, Part(_), st) == IF Found(n) THEN Bind(st, Part) ELSE st
    IN  IF found_indicators = << >> /\ ~PyFilesFound(F, c, pp) THEN NoMatch
        ELSE Bind(
            When("Pipfile", LAMBDA s5 : PipenvPart(F, c, pp, s5),
              When("pyproject.toml", LAMBDA s4 : PoetryPart(F, c, pp, s4),
                When("requirements.txt",
                     LAMBDA s3 : [details |-> RequirementsPart(F, c, pp, s3.details),
                                  fw |-> s3.fw],
                  When("main.py", LAMBDA s2 : FastApiPart(F, c, pp, s2),
                    When("app.py", LAMBDA s1 : FlaskPart(F, c, pp, s1),
                      When("manage.py",
                           LAMBDA s0 : [details |-> DjangoPart(F, c, pp,
                                                        Put(s0.details, "is_django", TRUE)),
                                        fw |-> <<"Django">>],
                        [details |-> Put(EmptyDict, "python_indicators", found_indicators),
                         fw |-> << >>])))))),
            LAMBDA s6 :
              Bind(Update(Put(MarkFiles(F, c, pp, PyMarkFiles, s6.details),
                              "frameworks_detected", s6.fw),
                          detect_python_version(F, S, c, pp).details),
                   LAMBDA d8 : Ret("python", Put(d8, "security_priority",
                                                 PySecurityPriority(d8)))))

----
(* analyze_project *)

PROJECT_CHECKERS ==
    <<"check_spring_boot", "check_java_legacy", "check_angular", "check_vue",
      "check_python", "check_gitlab_ci">>

RunChecker(name, F, S, c, pp) ==
    CASE name = "check_spring_boot" -> check_spring_boot(F, c, pp)
      [] name = "check_java_legacy" -> check_java_legacy(F, c, pp)
      [] name = "check_angular" -> check_angular(F, c, pp)
      [] name = "check_vue" -> check_vue(F, c, pp)
      [] name = "check_python" -> check_python(F, S, c, pp)
      [] name = "check_gitlab_ci" -> check_gitlab_ci(F, c, pp)

Called(name, r) == [probe |-> name, raised |-> r.raised, type |-> r.type, details |-> r.details]

\* what analyze_project hands back: the pair it returns, the probes it called, and
\* whether an exception left it instead
Analysis(type, details, tr, raised) ==
    [type |-> type, details |-> details, trace |-> tr, raised |-> raised]

\* the loop without its break: every probe is called and the last match wins
RECURSIVE CheckerLoopLast(_, _, _, _, _, _)
CheckerLoopLast(F, S, c, pp, i, tr) ==
    IF i > Len(PROJECT_CHECKERS) THEN Analysis(None, EmptyDict, tr, FALSE)
    ELSE Bind(RunChecker(PROJECT_CHECKERS[i], F, S, c, pp), LAMBDA r :
         Bind(CheckerLoopLast(F, S, c, pp, i + 1, Append(tr, Called(PROJECT_CHECKERS[i], r))),
              LAMBDA rest :
                IF rest.type # None \/ r.raised \/ r.type = None THEN rest
                ELSE Analysis(r.type, r.details, rest.trace, FALSE)))

\* the loop without its try/except: the exception of a probe leaves analyze_project
RECURSIVE CheckerLoopUnguarded(_, _, _, _, _, _)
CheckerLoopUnguarded(F, S, c, pp, i, tr) ==
    IF i > Len(PROJECT_CHECKERS) THEN Analysis(None, EmptyDict, tr, FALSE)
    ELSE Bind(RunChecker(PROJECT_CHECKERS[i], F, S, c, pp), LAMBDA r :
         Bind(Append(tr, Called(PROJECT_CHECKERS[i], r)), LAMBDA tr2 :
           IF r.raised THEN Analysis(None, r.details, tr2, TRUE)
           ELSE IF r.type # None THEN Analysis(r.type, r.details, tr2, FALSE)
           ELSE CheckerLoopUnguarded(F, S, c, pp, i + 1, tr2)))

\* the loop with a category of last resort
RECURSIVE CheckerLoopDefault(_, _, _, _, _, _)
CheckerLoopDefault(F, S, c, pp, i, tr) ==
    IF i > Len(PROJECT_CHECKERS) THEN Analysis("gitlab_ci", EmptyDict, tr, FALSE)
    ELSE Bind(RunChecker(PROJECT_CHECKERS[i], F, S, c, pp), LAMBDA r :
         Bind(Append(tr, Called(PROJECT_CHECKERS[i], r)), LAMBDA tr2 :
           IF ~r.raised /\ r.type # None THEN Analysis(r.type, r.details, tr2, FALSE)
           ELSE CheckerLoopDefault(F, S, c, pp, i + 1, tr2)))

\* the loop that gives a raising probe a second attempt
RECURSIVE CheckerLoopRetry(_, _, _, _, _, _)
CheckerLoopRetry(F, S, c, pp, i, tr) ==
    IF i > Len(PROJECT_CHECKERS) THEN Analysis(None, EmptyDict, tr, FALSE)
    ELSE Bind(RunChecker(PROJECT_CHECKERS[i], F, S, c, pp), LAMBDA r :
           Bind(Append(tr, Called(PROJECT_CHECKERS[i], r)), LAMBDA tr2 :
             IF ~r.raised /\ r.type # None
             THEN Analysis(r.type, Update(EmptyDict, r.details), tr2, FALSE)
             ELSE IF r.raised
             THEN CheckerLoopRetry(F, S, c, pp, i + 1, Append(tr2, Called(PROJECT_CHECKERS[i], r)))
             ELSE CheckerLoopRetry(F, S, c, pp, i + 1, tr2)))

\* lines 1021-1036: the loop over the probes; tr lists the probes called so far
RECURSIVE CheckerLoop(_, _, _, _, _, _)
CheckerLoop(F, S, c, pp, i, tr) ==
    IF i > Len(PROJECT_CHECKERS) THEN Analysis(None, EmptyDict, tr, FALSE)
    ELSE Bind(RunChecker(PROJECT_CHECKERS[i], F, S, c, pp), LAMBDA r :
           Bind(Append(tr, Called(PROJECT_CHECKERS[i], r)), LAMBDA tr2 :
             IF ~r.raised /\ r.type # None
             THEN Analysis(r.type, Update(EmptyDict, r.details), tr2, FALSE)
             ELSE CheckerLoop(F, S, c, pp, i + 1, tr2)))

\* lines 1004-1050
analyze_project(F, S, c, pp) ==
    IF ~isdir(F, c, pp) THEN Analysis(None, EmptyDict, << >>, FALSE)
    ELSE CheckerLoop(F, S, c, pp, 1, << >>)

----
(* core/rule_generator.py.  A document body is a sequence of text pieces; a piece is  *)
(* [a, v]: the name of a fixed text and the values interpolated into it.              *)

Blk(a, v) == [a |-> a, v |-> v]

NL == Blk("\n", << >>)

Opt(cond, b) == IF cond THEN <<b>> ELSE << >>

\* detected_tech.get(k) is true, for a key that holds True or False
TB(d, k) == HasKey(d, k) /\ d[k] = TRUE

\* detected_tech.get(k) is a non-empty string or list
TS(d, k) == HasKey(d, k) /\ d[k] # << >>

\* detected_tech.get(k) is a non-zero number
TI(d, k) == HasKey(d, k) /\ d[k] # 0

GetD(d, k, dflt) == IF HasKey(d, k) THEN d[k] ELSE dflt

RECURSIVE JoinNL(_)
JoinNL(q) == IF q = << >> THEN << >>
             ELSE IF Len(q) = 1 THEN q
             ELSE <<Head(q), NL>> \o JoinNL(Tail(q))

\* the adaptations placed before the template text instead of after it
Prepended(content, adaptations) ==
    IF adaptations = << >> THEN content ELSE JoinNL(adaptations) \o <<NL>> \o content

\* content += "\n" + "\n".join(adaptations), when there are adaptations
Appended(content, adaptations) ==
    IF adaptations = << >> THEN content ELSE content \o <<NL>> \o JoinNL(adaptations)

Adapted(content, adaptations) == [raised |-> FALSE, content |-> Appended(content, adaptations)]

AdaptRaise(content) == [raised |-> TRUE, content |-> content]

\* lines 44-132
adapt_angular(t, content) ==
    LET ver == IF TI(t, "angular_major_version")
               THEN <<Blk("angular.detected", <<t["angular_major_version"]>>)>>
                    \o Opt(TB(t, "supports_standalone"), Blk("angular.standalone", << >>))
                    \o Opt(TB(t, "supports_signals"), Blk("angular.signals", << >>))
                    \o Opt(TB(t, "new_control_flow"), Blk("angular.control_flow", << >>))
               ELSE << >>
    IN  Adapted(content,
            ver \o Opt(TB(t, "uses_angular_material"), Blk("angular.material", << >>))
                \o Opt(TB(t, "uses_ngrx"), Blk("angular.ngrx", << >>))
                \o Opt(TB(t, "is_pwa"), Blk("angular.pwa", << >>))
                \o Opt(TB(t, "has_ssr"), Blk("angular.ssr", << >>)))

PriorityBlock(t, known, name) ==
    Opt(HasKey(t, "security_priority") /\ t["security_priority"] \in known,
        Blk(name, <<GetD(t, "security_priority", "")>>))

\* lines 134-362
adapt_spring_boot(t, content) ==
    LET hasMajor == HasKey(t, "spring_boot_major_version")
        major == GetD(t, "spring_boot_major_version", 0)
        header ==
            IF TS(t, "spring_boot_version")
            THEN <<Blk("boot.header", <<t["spring_boot_version"]>>)>>
                 \o Opt(major = 1, Blk("boot.legacy_warning", << >>))
                 \o Opt(major = 2, Blk("boot.stable", << >>))
                 \o Opt(major >= 3, Blk("boot.modern", << >>))
            ELSE Opt(major # 0, Blk("boot.header_major", <<major>>))
        features ==
            Opt(TB(t, "uses_spring_security"), "Spring Security")
            \o Opt(TB(t, "uses_spring_data_jpa"), "Spring Data JPA")
            \o Opt(TB(t, "uses_actuator"), "Spring Boot Actuator")
            \o Opt(TB(t, "uses_webflux"), "Spring WebFlux")
            \o Opt(TB(t, "uses_spring_cloud"), "Spring Cloud")
            \o Opt(TB(t, "database_h2"), "H2 Database")
            \o Opt(TB(t, "database_mysql"), "MySQL")
            \o Opt(TB(t, "database_postgresql"), "PostgreSQL")
        byVersion ==
            IF major = 0 THEN << >>
            ELSE IF TB(t, "is_legacy") THEN <<Blk("boot.rules_1x", << >>)>>
            ELSE IF TB(t, "is_modern") THEN <<Blk("boot.rules_2x", << >>)>>
            ELSE IF TB(t, "is_latest") THEN <<Blk("boot.rules_3x", << >>)>>
            ELSE << >>
    IN  \* "major_version >= 3" with major_version None is a TypeError
        IF TS(t, "spring_boot_version") /\ ~hasMajor THEN AdaptRaise(content)
        ELSE Adapted(content,
                header
                \o Opt(features # << >>, Blk("boot.features", features))
                \o PriorityBlock(t, {"high", "medium", "low"}, "boot.priority")
                \o byVersion
                \o Opt(TB(t, "uses_spring_security"), Blk("boot.security", << >>))
                \o Opt(TB(t, "uses_actuator"), Blk("boot.actuator", << >>))
                \o Opt(TB(t, "uses_spring_data_jpa"), Blk("boot.jpa", << >>))
                \o Opt(TB(t, "database_h2") /\ TB(t, "h2_console_risk"), Blk("boot.h2", << >>))
                \o Opt(TB(t, "uses_webflux"), Blk("boot.webflux", << >>))
                \o Opt(TB(t, "uses_spring_cloud"), Blk("boot.cloud", << >>))
                \o Opt(GetD(t, "security_priority", "") = "high", Blk("boot.high_priority", << >>)))

\* lines 364-687
adapt_java_legacy_spring(t, content) ==
    LET major == GetD(t, "spring_major_version", 0)
        jsp_count == GetD(t, "jsp_files_count", 0)
        header ==
            IF TS(t, "spring_framework_version")
            THEN <<Blk("legacy.header", <<t["spring_framework_version"]>>),
                   IF TB(t, "is_very_legacy") THEN Blk("legacy.very_legacy", << >>)
                   ELSE IF TB(t, "is_legacy") THEN Blk("legacy.legacy", << >>)
                   ELSE IF TB(t, "is_old") THEN Blk("legacy.old", << >>)
                   ELSE Blk("legacy.recent", << >>)>>
            ELSE Opt(major # 0, Blk("legacy.header_major", <<major>>))
        features ==
            Opt(TB(t, "uses_spring_security"), <<"Spring Security">>)
            \o Opt(TB(t, "uses_spring_webmvc"), <<"Spring WebMVC">>)
            \o Opt(TB(t, "uses_spring_orm"), <<"Spring ORM">>)
            \o Opt(TB(t, "uses_hibernate"), <<"Hibernate ORM">>)
            \o Opt(TB(t, "uses_struts"), <<"Apache Struts">>)
            \o Opt(TB(t, "uses_log4j"), <<"Log4j">>)
            \o Opt(TB(t, "database_mysql"), <<"MySQL">>)
            \o Opt(TB(t, "database_oracle"), <<"Oracle DB">>)
            \o Opt(TB(t, "database_sqlserver"), <<"SQL Server">>)
            \o Opt(jsp_count > 0, <<"JSP files", jsp_count>>)
        servlet ==
            IF TS(t, "servlet_version")
            THEN <<Blk("legacy.servlet", <<t["servlet_version"]>>)>>
                 \o (IF TB(t, "servlet_very_legacy") THEN <<Blk("legacy.servlet_very_legacy", << >>)>>
                     ELSE Opt(TB(t, "servlet_legacy"), Blk("legacy.servlet_legacy", << >>)))
            ELSE << >>
        databases ==
            Opt(TB(t, "database_mysql"), "MySQL")
            \o Opt(TB(t, "database_oracle"), "Oracle")
            \o Opt(TB(t, "database_sqlserver"), "SQL Server")
    IN  Adapted(content,
            header
            \o Opt(features # << >>, Blk("legacy.features", features))
            \o PriorityBlock(t, {"critical", "high", "medium", "low"}, "legacy.priority")
            \o servlet
            \o Opt(major = 1, Blk("legacy.rules_1x", << >>))
            \o Opt(major = 2, Blk("legacy.rules_2x", << >>))
            \o Opt(major = 3, Blk("legacy.rules_3x", << >>))
            \o Opt(TB(t, "uses_spring_security"), Blk("legacy.security", << >>))
            \o Opt(TB(t, "uses_struts"), Blk("legacy.struts", <<GetD(t, "struts_version", << >>)>>))
            \o Opt(TB(t, "uses_hibernate"),
                   Blk("legacy.hibernate", <<GetD(t, "hibernate_version", << >>)>>))
            \o Opt(TB(t, "uses_log4j") /\ TB(t, "log4j_security_risk"),
                   Blk("legacy.log4j", <<GetD(t, "log4j_version", << >>)>>))
            \o Opt(jsp_count > 0, Blk("legacy.jsp", <<jsp_count>>))
            \o Opt(databases # << >>, Blk("legacy.databases", databases))
            \o Opt(TB(t, "is_maven"), Blk("legacy.maven", << >>))
            \o Opt(TB(t, "is_gradle"), Blk("legacy.gradle", << >>))
            \o Opt(GetD(t, "security_priority", "") = "critical", Blk("legacy.critical", << >>)))

\* lines 709-740: the Python version paragraph
PythonVersionInfo(t) ==
    LET major == GetD(t, "python_major_version", 0)
        minor == GetD(t, "python_minor_version", 0)
        warn == IF HasKey(t, "python_major_version") /\ major = 2 THEN "python2_obsolete"
                ELSE IF HasKey(t, "python_major_version") /\ major = 3 /\ minor # 0 /\ minor < 8
                     THEN "python3_limited"
                ELSE IF HasKey(t, "python_major_version") /\ major = 3 /\ minor # 0
                        /\ minor >= 11
                     THEN "python3_modern"
                ELSE "none"
    IN  Blk("python.version",
            <<t["python_version"], GetD(t, "python_path", << >>),
              GetD(t, "python_source", None),
              IF TB(t, "is_venv") /\ TS(t, "venv_path") THEN t["venv_path"] ELSE << >>,
              warn, minor>>)

\* lines 689-972
adapt_python(t, content) ==
    LET frameworks == GetD(t, "frameworks_detected", << >>)
        inds == GetD(t, "python_indicators", << >>)
        header ==
            IF frameworks # << >> \/ inds # << >> \/ TS(t, "python_version")
            THEN <<Blk("python.header", << >>)>>
                 \o Opt(TS(t, "python_version"), PythonVersionInfo(t))
                 \o Opt(frameworks # << >>, Blk("python.frameworks", frameworks))
                 \o Opt(inds # << >>, Blk("python.indicators", inds))
            ELSE << >>
        django ==
            IF TB(t, "is_django")
            THEN <<Blk("python.django", <<GetD(t, "django_version", <<"?">>)>>)>>
                 \o Opt(TB(t, "debug_enabled"), Blk("python.django_debug", << >>))
                 \o Opt(TB(t, "hardcoded_secret_key"), Blk("python.django_secret", << >>))
                 \o (IF TB(t, "database_sqlite") THEN <<Blk("python.django_sqlite", << >>)>>
                     ELSE IF TB(t, "database_postgresql")
                          THEN <<Blk("python.django_postgresql", << >>)>>
                     ELSE Opt(TB(t, "database_mysql"), Blk("python.django_mysql", << >>)))
            ELSE << >>
        flask ==
            IF TB(t, "is_flask")
            THEN <<Blk("python.flask", <<GetD(t, "flask_version", <<"?">>)>>)>>
                 \o Opt(TB(t, "debug_enabled"), Blk("python.flask_debug", << >>))
            ELSE << >>
    IN  Adapted(content,
            header
            \o PriorityBlock(t, {"high", "medium", "low"}, "python.priority")
            \o django
            \o flask
            \o Opt(TB(t, "is_fastapi"),
                   Blk("python.fastapi", <<GetD(t, "fastapi_version", <<"?">>)>>))
            \o Opt(TB(t, "is_poetry"), Blk("python.poetry", << >>))
            \o Opt(TB(t, "is_pipenv"), Blk("python.pipenv", << >>))
            \o Opt(TS(t, "requirements") /\ TS(t, "risky_packages"),
                   Blk("python.risky", GetD(t, "risky_packages", << >>)))
            \o Opt(TB(t, "has_wsgi"), Blk("python.wsgi", << >>))
            \o Opt(TB(t, "has_asgi"), Blk("python.asgi", << >>))
            \o Opt(TB(t, "has_pytest"), Blk("python.pytest", << >>))
            \o Opt(TB(t, "has_tox"), Blk("python.tox", << >>))
            \o Opt(TB(t, "has_docker"), Blk("python.docker", << >>)))

\* _adapt_rules with the Python checklist as the checklist of last resort
adapt_rules_with_default(project_type, t, base_rules_content) ==
    IF DOMAIN t = {} THEN Adapted(base_rules_content, << >>)
    ELSE IF project_type = "angular" THEN adapt_angular(t, base_rules_content)
    ELSE IF project_type = "springboot" THEN adapt_spring_boot(t, base_rules_content)
    ELSE IF project_type = "java_legacy_spring"
         THEN adapt_java_legacy_spring(t, base_rules_content)
    ELSE adapt_python(t, base_rules_content)

\* lines 974-1001: [raised, content]
adapt_rules(project_type, t, base_rules_content) ==
    IF DOMAIN t = {} THEN Adapted(base_rules_content, << >>)
    ELSE IF project_type = "angular" THEN adapt_angular(t, base_rules_content)
    ELSE IF project_type = "springboot" THEN adapt_spring_boot(t, base_rules_content)
    ELSE IF project_type = "java_legacy_spring"
         THEN adapt_java_legacy_spring(t, base_rules_content)
    ELSE IF project_type = "python" THEN adapt_python(t, base_rules_content)
    ELSE Adapted(base_rules_content, << >>)

----
(* core/utils.py: .mdc files.  The bytes of a document file are the sequence of the   *)
(* pieces written to it.                                                              *)

DocData(chunks) == [k |-> "doc", chunks |-> chunks]

FmOpen == Blk("---\n", << >>)

FmClose == Blk("\n---\n\n", << >>)

\* None, where a text made of pieces is expected
NoPieces == <<Blk("<None>", << >>)>>

\* the text of a file as load_mdc_file reads it
FileText(d) == IF d.k = "doc" THEN d.chunks ELSE <<Blk("file", <<d.k>>)>>

IsBlank(b) == b = NL

\* str.strip()
RECURSIVE Strip(_)
Strip(q) ==
    IF q = << >> THEN q
    ELSE IF IsBlank(Head(q)) THEN Strip(Tail(q))
    ELSE IF IsBlank(Last(q)) THEN Strip(SubSeq(q, 1, Len(q) - 1))
    ELSE q

\* lines 98-125: [st, frontmatter, content] with st "ok", "none" (None) or "raise";
\* frontmatter NoPieces is None
load_mdc_file(F, c, s) ==
    LET p == Resolve(c, s)
        none == [st |-> "none", frontmatter |-> NoPieces, content |-> << >>]
    IN  IF ~Exists(F, p) THEN none
        ELSE IF ~IsFile(F, p) \/ Data(F, p).k = "bad" THEN none
        ELSE IF Data(F, p).k = "binary" THEN [none EXCEPT !.st = "raise"]
        ELSE LET t == FileText(Data(F, p))
                 closes == {i \in 2..Len(t) : t[i] = FmClose}
             IN  IF t # << >> /\ t[1] = FmOpen /\ closes # {}
                 THEN LET e == CHOOSE i \in closes : \A j \in closes : i <= j
                      IN  [st |-> "ok", frontmatter |-> Strip(SubSeq(t, 2, e - 1)),
                           content |-> Strip(SubSeq(t, e + 1, Len(t)))]
                 ELSE [st |-> "ok", frontmatter |-> NoPieces, content |-> Strip(t)]

\* open(file_path, 'a') in the place of open(file_path, 'w'): an existing document is
\* extended instead of replaced
WriteEntryAppending(F, p, isDir, data) ==
    IF Exists(F, p)
    THEN [F EXCEPT ![Entry(F, p)] =
             [path |-> p, dir |-> isDir,
              data |-> IF ~isDir /\ F[Entry(F, p)].data.k = "doc"
                       THEN DocData(F[Entry(F, p)].data.chunks \o data.chunks)
                       ELSE data]]
    ELSE Append(F, [path |-> p, dir |-> isDir, data |-> data])

\* the entry of path p replaced, or appended to the listing when p is new
WriteEntry(F, p, isDir, data) ==
    IF Exists(F, p) THEN [F EXCEPT ![Entry(F, p)] = [path |-> p, dir |-> isDir, data |-> data]]
    ELSE Append(F, [path |-> p, dir |-> isDir, data |-> data])

\* os.makedirs(s, exist_ok=True); failNew = k makes the k-th directory creation fail
\* (0: the operating system refuses nothing); [ok, fs, err] with err the path in the error
RECURSIVE MakedirsFrom(_, _, _, _, _)
MakedirsFrom(F, p, i, failNew, made) ==
    IF i > Len(p) THEN [ok |-> TRUE, fs |-> F, err |-> << >>]
    ELSE LET q == SubSeq(p, 1, i)
         IN  IF IsDir(F, q) THEN MakedirsFrom(F, p, i + 1, failNew, made)
             ELSE IF IsFile(F, q)
                  THEN [ok |-> FALSE, fs |-> F,
                        err |-> Unsplit(IF i = Len(p) THEN q ELSE SubSeq(p, 1, i + 1))]
             ELSE IF failNew = made + 1 THEN [ok |-> FALSE, fs |-> F, err |-> Unsplit(q)]
             ELSE MakedirsFrom(WriteEntry(F, q, TRUE, DirData), p, i + 1, failNew, made + 1)

makedirs(F, c, s, failNew) == MakedirsFrom(F, Resolve(c, s), 1, failNew, 0)

\* lines 132-141: the successive f.write arguments
Writes(data) ==
    IF data.frontmatter # << >> /\ data.frontmatter # NoPieces
    THEN <<<<FmOpen>>, data.frontmatter, <<FmClose>>, data.content>>
    ELSE <<data.content>>

RECURSIVE Concat(_, _)
Concat(ws, n) == IF n = 0 THEN << >> ELSE Concat(ws, n - 1) \o ws[n]

\* lines 127-145.  fault: [mk, open, write, kept]: the directory creation that fails,
\* whether open fails, the write that fails (0: none) and how many of the earlier
\* writes reached the file.  [ok, fs]
save_mdc_file(F, c, file_path, data, fault) ==
    LET m == makedirs(F, c, dirname(file_path), fault.mk)
        p == Resolve(c, file_path)
        ws == Writes(data)
    IN  IF ~m.ok THEN [ok |-> FALSE, fs |-> m.fs]
        ELSE IF fault.open \/ IsDir(m.fs, p) THEN [ok |-> FALSE, fs |-> m.fs]
        ELSE IF fault.write \in 1..Len(ws)
             THEN [ok |-> FALSE,
                   fs |-> WriteEntry(m.fs, p, FALSE,
                              DocData(Concat(ws, IF fault.kept < fault.write THEN fault.kept
                                                 ELSE fault.write - 1)))]
             ELSE [ok |-> TRUE, fs |-> WriteEntry(m.fs, p, FALSE, DocData(Concat(ws, Len(ws))))]

----
(* RuleSet *)

TEMPLATES_DIR == <<"/", "app", "/", "core", "/", "..", "/", "templates">>

ProjectTypes == {"java_legacy_spring", "springboot", "angular", "vue", "python", "gitlab_ci"}

PROJECT_TYPES_TEMPLATES ==
    [t \in ProjectTypes |->
        CASE t = "java_legacy_spring" -> <<"java_legacy_spring", ".mdc">>
          [] t = "springboot" -> <<"spring_boot", ".mdc">>
          [] t = "angular" -> <<"angular", ".mdc">>
          [] t = "vue" -> <<"vue", ".mdc">>
          [] t = "python" -> <<"python", ".mdc">>
          [] t = "gitlab_ci" -> <<"gitlab_ci", ".mdc">>]

EmptyTemplate == [st |-> "ok", frontmatter |-> NoPieces, content |-> << >>]

\* lines 26-42
load_base_template(F, c, project_type) ==
    IF project_type \notin DOMAIN PROJECT_TYPES_TEMPLATES THEN EmptyTemplate
    ELSE LET b == load_mdc_file(F, c, join2(TEMPLATES_DIR, PROJECT_TYPES_TEMPLATES[project_type]))
         IN  IF b.st = "none" THEN EmptyTemplate ELSE b

\* lines 1003-1017: [raised, frontmatter, content]
generate(F, c, project_type, detected_tech) ==
    LET b == load_base_template(F, c, project_type)
        a == adapt_rules(project_type, detected_tech, b.content)
    IN  IF b.st = "raise" \/ a.raised
        THEN [raised |-> TRUE, frontmatter |-> NoPieces, content |-> << >>]
        ELSE [raised |-> FALSE, frontmatter |-> b.frontmatter, content |-> a.content]

\* lines 1021-1029: [st, frontmatter, content], st "none" for a None result
generate_rules(F, c, project_type, detected_tech, custom_rules_data) ==
    IF project_type = None \/ project_type = ""
    THEN [st |-> "none", frontmatter |-> NoPieces, content |-> << >>]
    ELSE LET g == generate(F, c, project_type, IF DOMAIN detected_tech = {} THEN EmptyDict
                                               ELSE detected_tech)
         IN  [st |-> IF g.raised THEN "raise" ELSE "ok",
              frontmatter |-> g.frontmatter, content |-> g.content]

----
(* mcp_tools.py *)

\* what stands for the path when os.path.abspath raised TypeError on a non-string argument
PathRaised == <<"<TypeError>">>

\* the lookup that prefers CURSOR_WORKSPACE to the provided path
get_project_path_env_first(c, e, provided_path) ==
    IF provided_path = NonStr THEN PathRaised
    ELSE IF Truthy(e) THEN e
    ELSE IF Truthy(provided_path) THEN abspath(c, provided_path)
    ELSE IF c = << >> THEN <<Sep>> ELSE Unsplit(c)

\* lines 26-45
get_project_path_from_context(c, e, provided_path) ==
    IF provided_path = NonStr THEN PathRaised
    ELSE IF Truthy(provided_path) THEN abspath(c, provided_path)
    ELSE IF Truthy(e) THEN e
    ELSE IF c = << >> THEN <<Sep>> ELSE Unsplit(c)

\* an f-string: the fixed text and the value interpolated into it
Msg(text, arg) == [msg |-> text, arg |-> arg]

\* str(e) of the exceptions the handlers can catch
OSErrorText(path) == <<"OSError: ">> \o path

UnicodeErrorText == <<"UnicodeDecodeError">>

TypeErrorText == <<"TypeError">>

InvalidPath(path) ==
    Put(Put(Put(EmptyDict,
        "success", FALSE),
        "error", Msg("La ruta '{path}' no existe o no es un directorio", path)),
        "project_path", path)

\* lines 48-96: [result, trace]
analyze_project_tool(F, S, c, e, project_path) ==
    Bind(get_project_path_from_context(c, e, project_path), LAMBDA path :
        IF path = PathRaised
        THEN [trace |-> << >>,
              result |-> Put(Put(Put(EmptyDict,
                  "success", FALSE),
                  "error", Msg("Error durante el analisis: {e}", TypeErrorText)),
                  "project_path", NoneV)]
        ELSE IF ~isdir(F, c, path) THEN [result |-> InvalidPath(path), trace |-> << >>]
        ELSE Bind(analyze_project(F, S, c, path), LAMBDA a :
                 IF a.raised
                 THEN [trace |-> a.trace,
                       result |-> Put(Put(Put(EmptyDict,
                           "success", FALSE),
                           "error", Msg("Error durante el analisis: {e}", TypeErrorText)),
                           "project_path", path)]
                 ELSE IF a.type = None
                 THEN [trace |-> a.trace,
                       result |-> Put(Put(Put(Put(EmptyDict,
                           "success", FALSE),
                           "error", Msg("No se pudo detectar el tipo de proyecto automaticamente", << >>)),
                           "project_path", path),
                           "suggestion", "Intenta especificar el tipo manualmente")]
                 ELSE [trace |-> a.trace,
                       result |-> Put(Put(Put(Put(Put(EmptyDict,
                           "success", TRUE),
                           "project_path", path),
                           "project_type", a.type),
                           "detected_technologies", a.details),
                           "message", Msg("Proyecto detectado: {project_type}", <<a.type>>))]))

\* lines 285-333: the fields copied into technology.details
CopyIf(out, cond, k, v) == IF cond THEN Put(out, k, v) ELSE out

TechDetails(project_type, t) ==
    CASE project_type = "springboot" ->
            CopyIf(CopyIf(CopyIf(CopyIf(EmptyDict,
                TS(t, "spring_boot_version"), "version", GetD(t, "spring_boot_version", << >>)),
                TB(t, "uses_spring_security"), "spring_security", TRUE),
                TB(t, "uses_spring_data_jpa"), "spring_data_jpa", TRUE),
                TB(t, "uses_actuator"), "actuator", TRUE)
      [] project_type = "angular" ->
            CopyIf(CopyIf(CopyIf(EmptyDict,
                TI(t, "angular_major_version"), "version", GetD(t, "angular_major_version", 0)),
                TB(t, "supports_standalone"), "standalone_components", TRUE),
                TB(t, "supports_signals"), "signals_api", TRUE)
      [] project_type = "python" ->
            CopyIf(CopyIf(CopyIf(CopyIf(CopyIf(CopyIf(CopyIf(CopyIf(CopyIf(EmptyDict,
                TS(t, "python_version"), "python_version", GetD(t, "python_version", << >>)),
                TS(t, "python_path"), "python_path", GetD(t, "python_path", << >>)),
                HasKey(t, "python_source"), "python_source", GetD(t, "python_source", "")),
                TB(t, "is_venv"), "is_venv", TRUE),
                TS(t, "venv_path"), "venv_path", GetD(t, "venv_path", << >>)),
                TS(t, "frameworks_detected"), "frameworks", GetD(t, "frameworks_detected", << >>)),
                TB(t, "is_django"), "django", TRUE),
                TB(t, "is_flask"), "flask", TRUE),
                TB(t, "is_fastapi"), "fastapi", TRUE)
      [] project_type = "java_legacy_spring" ->
            CopyIf(CopyIf(CopyIf(EmptyDict,
                TS(t, "spring_framework_version"), "spring_version",
                    GetD(t, "spring_framework_version", << >>)),
                HasKey(t, "security_priority"), "security_priority",
                    GetD(t, "security_priority", "")),
                TI(t, "jsp_files_count"), "jsp_files", GetD(t, "jsp_files_count", 0))
      [] OTHER -> EmptyDict

\* lines 246-347: [result, trace]
detect_technology_tool(F, S, c, e, project_path) ==
    Bind(get_project_path_from_context(c, e, project_path), LAMBDA path :
        IF path = PathRaised
        THEN [trace |-> << >>,
              result |-> Put(Put(Put(EmptyDict,
                  "success", FALSE),
                  "error", Msg("Error detectando tecnologias: {e}", TypeErrorText)),
                  "project_path", NoneV)]
        ELSE IF ~isdir(F, c, path)
        THEN [trace |-> << >>,
              result |-> Put(Put(EmptyDict,
                  "success", FALSE),
                  "error", Msg("La ruta '{path}' no existe o no es un directorio", path))]
        ELSE Bind(analyze_project(F, S, c, path), LAMBDA a :
                 IF a.raised
                 THEN [trace |-> a.trace,
                       result |-> Put(Put(Put(EmptyDict,
                           "success", FALSE),
                           "error", Msg("Error detectando tecnologias: {e}", TypeErrorText)),
                           "project_path", path)]
                 ELSE IF a.type = None
                 THEN [trace |-> a.trace,
                       result |-> Put(Put(Put(EmptyDict,
                           "success", FALSE),
                           "error", Msg("No se detectaron tecnologias reconocidas", << >>)),
                           "project_path", path)]
                 ELSE [trace |-> a.trace,
                       result |-> Put(Put(Put(Put(EmptyDict,
                           "success", TRUE),
                           "project_path", path),
                           "technology", [project_type |-> a.type,
                                          details |-> TechDetails(a.type, a.details)]),
                           "raw_details", a.details)]))

\* lines 350-436
\* the list without the entry of gitlab_ci
SupportedTechnologiesFive ==
    {"springboot", "angular", "vue", "python", "java_legacy_spring"}

SupportedTechnologies ==
    {"springboot", "angular", "vue", "python", "java_legacy_spring", "gitlab_ci"}

list_supported_technologies_tool ==
    Put(Put(Put(EmptyDict,
        "success", TRUE),
        "supported_technologies", SupportedTechnologies),
        "total_technologies", 6)

\* os.path.relpath(target, start)
RECURSIVE CommonLen(_, _, _)
CommonLen(a, b, i) ==
    IF i < Len(a) /\ i < Len(b) /\ a[i + 1] = b[i + 1] THEN CommonLen(a, b, i + 1) ELSE i

RECURSIVE Ups(_)
Ups(n) == IF n = 0 THEN << >> ELSE <<<<"..">>>> \o Ups(n - 1)

relpath(c, target, start) ==
    LET a == Resolve(c, target)
        b == Resolve(c, start)
        k == CommonLen(a, b, 0)
        r == Ups(Len(b) - k) \o SubSeq(a, k + 1, Len(a))
    IN  IF r = << >> THEN <<".">> ELSE Tail(Unsplit(r))

\* lines 206-215
TechSummary(t) ==
    Opt(TS(t, "spring_boot_version"), Blk("Spring Boot", <<GetD(t, "spring_boot_version", << >>)>>))
    \o Opt(TI(t, "angular_major_version"), Blk("Angular", <<GetD(t, "angular_major_version", 0)>>))
    \o (IF TS(t, "frameworks_detected")
        THEN [i \in 1..Len(t["frameworks_detected"]) |-> Blk(t["frameworks_detected"][i], << >>)]
        ELSE << >>)
    \o Opt(TS(t, "spring_framework_version"),
           Blk("Spring Framework", <<GetD(t, "spring_framework_version", << >>)>>))

NoFault == [mk |-> 0, smk |-> 0, open |-> FALSE, write |-> 0, kept |-> 0]

GenerationError(path, text) ==
    Put(Put(Put(Put(EmptyDict,
        "success", FALSE),
        "error", Msg("Error durante la generacion de reglas: {e}", text)),
        "project_path", path),
        "traceback", text)

\* what the handler computed on its way: the resolved root, whether detection ran,
\* the category and attributes handed to the generator, the document and the output path
Way(path, analyzed, type, tech, custom, final, output_path, saved) ==
    [path |-> path, analyzed |-> analyzed, type |-> type, tech |-> tech, custom |-> custom,
     final |-> final, output_path |-> output_path, saved |-> saved]

NoDoc == [st |-> "none", frontmatter |-> NoPieces, content |-> << >>]

\* line 191
OutputDir(path) == join(path, <<".cursor", "rules">>)

\* lines 195-196
WithMdc(output_filename) ==
    IF endswith(output_filename, MdcExt) THEN output_filename
    ELSE Append(output_filename, MdcExt)

\* line 198
OutputPath(path, output_filename) == join2(OutputDir(path), WithMdc(output_filename))

Outcome4(r, F, tr, w) == [result |-> r, fs |-> F, trace |-> tr, way |-> w]

\* lines 204-235: save_mdc_file and the dict that reports it
SaveRules(F, c, path, a, way1, final, output_path, fault) ==
    Bind(save_mdc_file(F, c, output_path, final,
                       [mk |-> fault.smk, open |-> fault.open, write |-> fault.write,
                        kept |-> fault.kept]), LAMBDA sv :
    Bind(TechSummary(a.details), LAMBDA summary :
    Bind([way1 EXCEPT !.output_path = output_path, !.saved = sv.ok], LAMBDA way2 :
      IF sv.ok
      THEN Outcome4(Put(Put(Put(Put(Put(Put(Put(EmptyDict,
               "success", TRUE),
               "project_path", path),
               "project_type", a.type),
               "output_file", output_path),
               "technologies_detected",
                   IF summary # << >> THEN summary
                   ELSE <<Blk("Analisis basico completado", << >>)>>),
               "message", Msg("Reglas generadas exitosamente en: {path}", output_path)),
               "details",
                   [file_size |-> Len(Data(sv.fs, Resolve(c, output_path)).chunks),
                    relative_path |-> relpath(c, output_path, path)]),
               sv.fs, a.trace, way2)
      ELSE Outcome4(Put(Put(Put(Put(EmptyDict,
               "success", FALSE),
               "error", Msg("No se pudo escribir el archivo en: {path}", output_path)),
               "project_path", path),
               "project_type", a.type), sv.fs, a.trace, way2))))

\* lines 175-198: generate_rules, the output directory and the output path
WriteRules(F, c, path, a, way0, custom_rules, output_filename, fault) ==
    Bind(generate_rules(F, c, a.type, a.details, custom_rules), LAMBDA final :
    Bind([way0 EXCEPT !.custom = custom_rules, !.final = final], LAMBDA way1 :
      IF final.st = "raise"
      THEN Outcome4(GenerationError(path,
                        IF load_base_template(F, c, a.type).st = "raise"
                        THEN UnicodeErrorText ELSE TypeErrorText), F, a.trace, way1)
      ELSE IF final.st = "none"
      THEN Outcome4(Put(Put(Put(Put(EmptyDict,
               "success", FALSE),
               "error", Msg("No se pudieron generar reglas para el tipo '{type}'", <<a.type>>)),
               "project_path", path),
               "project_type", a.type), F, a.trace, way1)
      ELSE Bind(makedirs(F, c, OutputDir(path), fault.mk), LAMBDA mk :
             IF ~mk.ok
             THEN Outcome4(GenerationError(path, OSErrorText(mk.err)), mk.fs, a.trace, way1)
             ELSE SaveRules(mk.fs, c, path, a, way1, final,
                            OutputPath(path, output_filename), fault))))

\* the output directory prepared before the custom rules file is looked at
LoadCustomDirFirst(F, c, path, a, way0, output_filename, custom_rules_path, fault) ==
    Bind(makedirs(F, c, OutputDir(path), 0).fs, LAMBDA G :
      IF ~Truthy(custom_rules_path)
      THEN WriteRules(G, c, path, a, way0, NoPieces, output_filename, fault)
      ELSE IF ~exists(G, c, custom_rules_path)
      THEN Outcome4(Put(Put(Put(EmptyDict,
               "success", FALSE),
               "error", Msg("Archivo de reglas personalizadas no encontrado: {path}",
                            custom_rules_path)),
               "project_path", path), G, a.trace, way0)
      ELSE Bind(load_mdc_file(G, c, custom_rules_path), LAMBDA loaded :
             IF loaded.st = "raise"
             THEN Outcome4(GenerationError(path, UnicodeErrorText), G, a.trace, way0)
             ELSE WriteRules(G, c, path, a, way0,
                             IF loaded.st = "ok" THEN loaded.content ELSE NoPieces,
                             output_filename, fault)))

\* lines 155-169: the custom rules file
LoadCustom(F, c, path, a, way0, output_filename, custom_rules_path, fault) ==
    IF ~Truthy(custom_rules_path)
    THEN WriteRules(F, c, path, a, way0, NoPieces, output_filename, fault)
    ELSE IF ~exists(F, c, custom_rules_path)
    THEN Outcome4(Put(Put(Put(EmptyDict,
             "success", FALSE),
             "error", Msg("Archivo de reglas personalizadas no encontrado: {path}",
                          custom_rules_path)),
             "project_path", path), F, a.trace, way0)
    ELSE Bind(load_mdc_file(F, c, custom_rules_path), LAMBDA loaded :
           IF loaded.st = "raise"
           THEN Outcome4(GenerationError(path, UnicodeErrorText), F, a.trace, way0)
           ELSE WriteRules(F, c, path, a, way0,
                           IF loaded.st = "ok" THEN loaded.content ELSE NoPieces,
                           output_filename, fault))

\* the override names the category but detection still runs and its attributes are kept
DetectedTypeKeepsDetails(F, S, c, path, project_type) ==
    IF project_type # None /\ project_type # ""
    THEN [analyzed |-> TRUE] @@ [analyze_project(F, S, c, path) EXCEPT !.type = project_type]
    ELSE [analyzed |-> TRUE] @@ analyze_project(F, S, c, path)

\* lines 135-141: the category and attributes the generator is given
DetectedType(F, S, c, path, project_type) ==
    IF project_type # None /\ project_type # ""
    THEN [analyzed |-> FALSE] @@ Analysis(project_type, EmptyDict, << >>, FALSE)
    ELSE [analyzed |-> TRUE] @@ analyze_project(F, S, c, path)

\* lines 99-243: [result, fs, trace, way]
generate_rules_tool(F, S, c, e, project_path, output_filename, custom_rules_path, project_type, fault) ==
    Bind(get_project_path_from_context(c, e, project_path), LAMBDA path :
      IF path = PathRaised
      THEN Outcome4(GenerationError(NoneV, TypeErrorText), F, << >>,
                    Way(path, FALSE, None, EmptyDict, NoPieces, NoDoc, NoneV, FALSE))
      ELSE IF ~isdir(F, c, path)
      THEN Outcome4(InvalidPath(path), F, << >>,
                    Way(path, FALSE, None, EmptyDict, NoPieces, NoDoc, NoneV, FALSE))
      ELSE Bind(DetectedType(F, S, c, path, project_type), LAMBDA a :
             Bind(Way(path, a.analyzed, a.type, a.details, NoPieces, NoDoc, NoneV, FALSE),
                  LAMBDA way0 :
                    IF a.raised
                    THEN Outcome4(GenerationError(path, TypeErrorText), F, a.trace, way0)
                    ELSE IF a.type = None
                    THEN Outcome4(Put(Put(Put(Put(EmptyDict,
                             "success", FALSE),
                             "error", Msg("No se pudo detectar el tipo de proyecto", << >>)),
                             "project_path", path),
                             "suggestion", "Especifica el tipo de proyecto manualmente"),
                             F, a.trace, way0)
                    ELSE LoadCustom(F, c, path, a, way0, output_filename,
                                    custom_rules_path, fault))))

----
(* The worlds the program is run in *)

DirAt(p) == [path |-> p, dir |-> TRUE, data |-> DirData]

FileAt(p, d) == [path |-> p, dir |-> FALSE, data |-> d]

Proj == <<"proj">>

InProj(names) == <<Proj>> \o names

\* a template or rules document with a header and a body
Doc(name) == DocData(<<FmOpen, Blk("header", <<name>>), FmClose, Blk("body", <<name>>)>>)

\* a document without a header
Bare(name) == DocData(<<Blk("body", <<name>>)>>)

TemplateAt(n, d) == FileAt(<<<<"app">>, <<"templates">>, <<n, MdcExt>>>>, d)

\* the installation: the package, its templates, and some neighbours of the project
Installation(tv) ==
    <<DirAt(<<<<"app">>>>), DirAt(<<<<"app">>, <<"core">>>>), DirAt(<<<<"app">>, <<"templates">>>>),
      TemplateAt("spring_boot", Doc("springboot")),
      TemplateAt("java_legacy_spring", Doc("java_legacy_spring")),
      TemplateAt("vue", Bare("vue")),
      TemplateAt("gitlab_ci", Doc("gitlab_ci"))>>
    \o (IF tv = "missing" THEN << >>
        ELSE <<TemplateAt("angular", IF tv = "unreadable" THEN BadData ELSE Doc("angular")),
               TemplateAt("python", IF tv = "binary" THEN BinaryData ELSE Doc("python"))>>)
    \o <<FileAt(<<<<"file">>>>, RawData),
         DirAt(<<<<"other">>>>),
         FileAt(<<<<"custom", MdcExt>>>>, Doc("custom")),
         FileAt(<<<<"empty", MdcExt>>>>, DocData(<< >>)),
         FileAt(<<<<"binary", MdcExt>>>>, BinaryData),
         DirAt(<<Proj>>)>>

GitlabCi == <<FileAt(InProj(<<<<".gitlab-ci.yml">>>>), RawData)>>

BootPom(v) ==
    <<FileAt(InProj(<<<<"pom.xml">>>>),
             PomData(TRUE, TRUE, Parent("spring-boot-starter-parent", TRUE, v), TRUE,
                     <<Dep("org.springframework.boot", "spring-boot-starter-security", FALSE, NoText),
                       Dep("org.springframework.boot", "spring-boot-starter-actuator", FALSE, NoText)>>,
                     FALSE, << >>))>>

WebInf ==
    <<DirAt(InProj(<<<<"src">>>>)), DirAt(InProj(<<<<"src">>, <<"main">>>>)),
      DirAt(InProj(<<<<"src">>, <<"main">>, <<"webapp">>>>)),
      DirAt(InProj(<<<<"src">>, <<"main">>, <<"webapp">>, <<"WEB-INF">>>>)),
      FileAt(InProj(<<<<"src">>, <<"main">>, <<"webapp">>, <<"WEB-INF">>, <<"web.xml">>>>),
             WebXmlData(TRUE, <<"2", ".", "5">>)),
      FileAt(InProj(<<<<"src">>, <<"main">>, <<"webapp">>, <<"index", ".jsp">>>>), RawData)>>

LegacyPomFile ==
    <<FileAt(InProj(<<<<"pom.xml">>>>),
             PomData(TRUE, TRUE, NoParent, TRUE,
                     <<Dep("org.springframework", "spring-webmvc", TRUE, <<"3", ".", "2", ".", "1">>)>>,
                     TRUE, <<Prop("spring.version", <<"3", ".", "2", ".", "1">>)>>))>>

PackageJson(deps, dev) ==
    <<FileAt(InProj(<<<<"package.json">>>>), JsonData("dict", deps, dev, FALSE, NoneV))>>

V(k, v) == Put(EmptyDict, k, v)

Requirements ==
    <<FileAt(InProj(<<<<"requirements.txt">>>>),
             TextData({}, V("lines", <<Req("flask", TRUE, <<"2", ".", "0">>),
                                       Req("pycrypto", FALSE, << >>)>>)))>>

PyFiles ==
    <<DirAt(InProj(<<<<"pkg">>>>)),
      FileAt(InProj(<<<<"pkg">>, <<"a", ".py">>>>), RawData),
      FileAt(InProj(<<<<"pkg">>, <<"b", ".py">>>>), RawData),
      FileAt(InProj(<<<<"pkg">>, <<"c", ".py">>>>), RawData)>>

\* a virtual environment whose interpreter behaves as run
Venv(run) ==
    <<DirAt(InProj(<<<<".venv">>>>)), DirAt(InProj(<<<<".venv">>, <<"bin">>>>)),
      FileAt(InProj(<<<<".venv">>, <<"bin">>, <<"python">>>>), ExeData(run))>>

PythonVersionFile ==
    <<FileAt(InProj(<<<<".python-version">>>>),
             TextData({}, V("content", <<"3", ".", "1", "0", ".", "2">>)))>>

\* a pom.xml that is not well-formed XML; what a lenient reader would see of it is a
\* Spring Boot parent and a Spring dependency
BrokenPom ==
    <<FileAt(InProj(<<<<"pom.xml">>>>),
             PomData(FALSE, TRUE, Parent("spring-boot-starter-parent", TRUE, <<"1", ".", "4", ".", "2">>),
                     TRUE,
                     <<Dep("org.springframework", "spring-webmvc", TRUE, <<"3", ".", "2", ".", "1">>)>>,
                     TRUE, <<Prop("spring.version", <<"3", ".", "2", ".", "1">>)>>))>>

BootGradle ==
    <<FileAt(InProj(<<<<"build.gradle">>>>), TextData({"org.springframework.boot"}, EmptyDict))>>

PlainGradle ==
    <<FileAt(InProj(<<<<"build.gradle">>>>),
             TextData({}, V("springframework", <<"4", ".", "3", ".", "9">>)))>>

AppYml ==
    <<DirAt(InProj(<<<<"src">>>>)), DirAt(InProj(<<<<"src">>, <<"main">>>>)),
      DirAt(InProj(<<<<"src">>, <<"main">>, <<"resources">>>>)),
      FileAt(InProj(<<<<"src">>, <<"main">>, <<"resources">>, <<"application.yml">>>>), RawData)>>

\* three Python files below a directory of the project
PyFilesIn(d) ==
    <<DirAt(InProj(<<d>>)),
      FileAt(InProj(<<d, <<"a", ".py">>>>), RawData),
      FileAt(InProj(<<d, <<"b", ".py">>>>), RawData),
      FileAt(InProj(<<d, <<"c", ".py">>>>), RawData)>>

VueFileIn(d) ==
    <<DirAt(InProj(<<d>>)), FileAt(InProj(<<d, <<"App", ".vue">>>>), RawData)>>

ManagePy == <<FileAt(InProj(<<<<"manage.py">>>>), RawData)>>

\* a settings.py of some package below a directory of the project
SettingsIn(d) ==
    <<DirAt(InProj(<<d>>)), DirAt(InProj(<<d, <<"pkg">>>>)),
      FileAt(InProj(<<d, <<"pkg">>, <<"settings", ".py">>>>),
             TextData({"DEBUG = True", "sqlite3"}, EmptyDict))>>

\* a text file of the project directory that sets key to v
ProjText(name, key, v) == <<FileAt(InProj(<<<<name>>>>), TextData({}, V(key, v)))>>

Pyproject39 == ProjText("pyproject.toml", "requires-python", <<">=", "3", ".", "9">>)

Pipfile38 == ProjText("Pipfile", "python_version", <<"3", ".", "8">>)

Setup37 == ProjText("setup.py", "python_requires", <<">=", "3", ".", "7">>)

Python312 == Outcome("ok", <<"Python", " ", "3", ".", "1", "2", ".", "1">>)

WebApp == <<<<"src">>, <<"main">>, <<"webapp">>>>

\* a directory d below the project directory with the files names
FilesIn(d, names) ==
    <<DirAt(InProj(d))>> \o [i \in 1..Len(names) |-> FileAt(InProj(Append(d, names[i])), RawData)]

\* the entries es of the project directory, below /builds/proj
InBuilds(es) ==
    <<DirAt(<<<<"builds">>>>), DirAt(<<<<"builds">>, Proj>>)>>
    \o [i \in 1..Len(es) |-> [es[i] EXCEPT !.path = <<<<"builds">>>> \o @]]

\* a requirements.txt that names no risky package
SafeRequirements ==
    <<FileAt(InProj(<<<<"requirements.txt">>>>),
             TextData({}, V("lines", <<Req("requests", TRUE, <<"2", ".", "3", "1">>)>>)))>>

\* a settings.py with the texts has in the package directory conf
SettingsWith(has) ==
    <<DirAt(InProj(<<<<"conf">>>>)),
      FileAt(InProj(<<<<"conf">>, <<"settings", ".py">>>>), TextData(has, EmptyDict))>>

\* an app.py with the texts has
AppPyWith(has) == <<FileAt(InProj(<<<<"app.py">>>>), TextData(has, EmptyDict))>>

\* a pom.xml with the Spring Boot parent in version v; ns tells whether the root
\* element declares the Maven POM namespace
BootParentPom(ns, v) ==
    <<FileAt(InProj(<<<<"pom.xml">>>>),
             PomData(TRUE, ns, Parent("spring-boot-starter-parent", TRUE, v), TRUE,
                     <<Dep("org.springframework.boot", "spring-boot-starter-web", FALSE, NoText)>>,
                     FALSE, << >>))>>

\* a pom.xml in the POM namespace that names a Spring version in its properties
\* (prop), in its spring-webmvc dependency (dep), or in both; NoText leaves one out
SpringPom(prop, dep) ==
    <<FileAt(InProj(<<<<"pom.xml">>>>),
             PomData(TRUE, TRUE, NoParent, TRUE,
                     <<Dep("org.springframework", "spring-webmvc", dep # NoText, dep)>>,
                     prop # NoText,
                     IF prop # NoText THEN <<Prop("spring.version", prop)>> ELSE << >>))>>

SpringGradle(v) ==
    <<FileAt(InProj(<<<<"build.gradle">>>>), TextData({}, V("springframework", v)))>>

Project(n) ==
    CASE n = "empty" -> << >>
      [] n = "spring-prop4.3-dep3.2-gradle2.5" ->
            WebInf \o SpringPom(<<"4", ".", "3", ".", "9">>, <<"3", ".", "2", ".", "1">>)
            \o SpringGradle(<<"2", ".", "5", ".", "6">>)
      [] n = "spring-prop4.3-dep3.2" ->
            WebInf \o SpringPom(<<"4", ".", "3", ".", "9">>, <<"3", ".", "2", ".", "1">>)
      [] n = "spring-dep3.2-gradle2.5" ->
            WebInf \o SpringPom(NoText, <<"3", ".", "2", ".", "1">>)
            \o SpringGradle(<<"2", ".", "5", ".", "6">>)
      [] n = "spring-prop3.2-dep3.2" ->
            WebInf \o SpringPom(<<"3", ".", "2", ".", "1">>, <<"3", ".", "2", ".", "1">>)
      [] n = "spring-1.2" -> WebInf \o SpringPom(<<"1", ".", "2", ".", "9">>, NoText)
      [] n = "spring-2.0" -> WebInf \o SpringPom(NoText, <<"2", ".", "0", ".", "8">>)
      [] n = "spring-2.5" -> WebInf \o SpringPom(<<"2", ".", "5", ".", "6">>, NoText)
      [] n = "spring-3.0" -> WebInf \o SpringPom(NoText, <<"3", ".", "0", ".", "5">>)
      [] n = "spring-3.1" -> WebInf \o SpringPom(<<"3", ".", "1", ".", "4">>, NoText)
      [] n = "spring-3.2" -> WebInf \o SpringPom(NoText, <<"3", ".", "2", ".", "1", "8">>)
      [] n = "spring-3.10" -> WebInf \o SpringPom(<<"3", ".", "1", "0">>, NoText)
      [] n = "spring-4.3" -> WebInf \o SpringPom(<<"4", ".", "3", ".", "9">>, NoText)
      [] n = "spring-5.0" -> WebInf \o SpringPom(NoText, <<"5", ".", "0", ".", "2">>)
      [] n = "spring-0.9" -> WebInf \o SpringPom(<<"0", ".", "9">>, NoText)
      [] n = "boot-1.4.2" -> BootParentPom(TRUE, <<"1", ".", "4", ".", "2">>)
      [] n = "boot-2.7.5" -> BootParentPom(TRUE, <<"2", ".", "7", ".", "5">>)
      [] n = "boot-3.2.1" -> BootParentPom(TRUE, <<"3", ".", "2", ".", "1">>)
      [] n = "boot-12.0.0" -> BootParentPom(TRUE, <<"1", "2", ".", "0", ".", "0">>)
      [] n = "boot-0.9.0" -> BootParentPom(TRUE, <<"0", ".", "9", ".", "0">>)
      [] n = "boot-2.7.5-plain" -> BootParentPom(FALSE, <<"2", ".", "7", ".", "5">>)
      [] n = "src-all" ->
            Venv(Python312) \o PythonVersionFile \o Pyproject39 \o Pipfile38 \o Setup37
      [] n = "src-pyenv" -> PythonVersionFile \o Pyproject39 \o Pipfile38 \o Setup37
      [] n = "src-pyproject" -> Pyproject39 \o Pipfile38 \o Setup37
      [] n = "src-pipfile" -> Pipfile38 \o Setup37
      [] n = "src-setup" -> Setup37
      [] n = "src-badpyenv+pipfile" ->
            ProjText(".python-version", "content", <<"pypy", "3", ".", "9">>) \o Pipfile38
      [] n = "src-badpyproject+setup" ->
            ProjText("pyproject.toml", "requires-python", <<">=", "3">>) \o Setup37
      [] n = "src-pipfile-star" -> ProjText("Pipfile", "python_version", <<"*">>)
      [] n = "src-pipfile-3x+setup" ->
            ProjText("Pipfile", "python_version", <<"3", ".", "x">>) \o Setup37
      [] n = "jsp-pages" ->
            WebInf \o FilesIn(WebApp \o <<<<"pages">>>>,
                              <<<<"a", ".jsp">>, <<"b", ".jspf">>, <<"c", ".jspx">>, <<"d", ".jsp">>,
                                <<"e", ".html">>>>)
      [] n = "jsp-two" -> WebInf \o FilesIn(WebApp \o <<<<"pages">>>>, <<<<"a", ".jsp">>>>)
      [] n = "jsp-target" ->
            WebInf \o FilesIn(<<<<"target">>>>, <<<<"a", ".jsp">>>>)
            \o FilesIn(<<<<"target">>, <<"app">>>>, <<<<"b", ".jsp">>>>)
      [] n = "jsp-targets" -> WebInf \o FilesIn(<<<<"targets">>>>, <<<<"a", ".jsp">>>>)
      [] n = "jsp-context-views" ->
            WebInf
            \o <<FileAt(InProj(WebApp \o <<<<"WEB-INF">>, <<"applicationContext", ".xml">>>>),
                        RawData)>>
            \o FilesIn(WebApp \o <<<<"WEB-INF">>, <<"views">>>>, <<<<"list", ".jsp">>>>)
      [] n = "jsp-in-builds" -> InBuilds(WebInf)
      [] n = "py-safe" -> SafeRequirements
      [] n = "py-risky" -> Requirements
      [] n = "py-django-debug" -> ManagePy \o SettingsWith({"DEBUG = True", "sqlite3"})
      [] n = "py-django-secret" -> ManagePy \o SettingsWith({"SECRET_KEY literal"})
      [] n = "py-django-quiet" -> ManagePy \o SafeRequirements \o SettingsWith({"mysql"})
      [] n = "py-django-all" ->
            ManagePy \o Requirements \o SettingsWith({"DEBUG = True", "SECRET_KEY literal"})
      [] n = "py-flask" -> AppPyWith({"from flask import"})
      [] n = "py-flask-debug" -> AppPyWith({"import flask", "debug=True"})
      [] n = "py-flask-debug-risky" ->
            Requirements \o AppPyWith({"from flask import", "app.debug = True"})
      [] n = "py-app-debug-noflask" -> AppPyWith({"debug=True"})
      [] n = "build-vue" -> VueFileIn(<<"build">>)
      [] n = "nodemodules-vue-py" -> VueFileIn(<<"node_modules">>) \o Tail(PyFilesIn(<<"node_modules">>))
      [] n = "target-py" -> PyFilesIn(<<"target">>)
      [] n = "venv-py" -> PyFilesIn(<<"venv">>)
      [] n = "django+nodemodules" -> ManagePy \o SettingsIn(<<"node_modules">>)
      [] n = "badpom" -> BrokenPom
      [] n = "badpom+ci" -> BrokenPom \o GitlabCi
      [] n = "badpom+bootgradle" -> BrokenPom \o BootGradle
      [] n = "badpom+appyml" -> BrokenPom \o AppYml
      [] n = "badpom+webinf" -> BrokenPom \o PlainGradle \o WebInf
      [] n = "badpom+py" -> BrokenPom \o Requirements
      [] n = "venv-hangs" -> Requirements \o Venv(Outcome("hangs", << >>))
      [] n = "venv-hangs+pyenv" ->
            Requirements \o Venv(Outcome("hangs", << >>)) \o PythonVersionFile
      [] n = "venv-ok" ->
            Requirements \o Venv(Outcome("ok", <<"Python", " ", "3", ".", "9", ".", "1">>))
      [] n = "boot+ci" -> BootPom(<<"3", ".", "2", ".", "1">>) \o GitlabCi
      [] n = "boot+legacy" -> BootPom(<<"2", ".", "7", ".", "0">>) \o WebInf
      [] n = "legacy" -> WebInf \o LegacyPomFile
      [] n = "angular+py" ->
            PackageJson(Sec(V("@angular/core", <<"^", "1", "7", ".", "0">>)), Sec(EmptyDict))
            \o Requirements
      [] n = "nulldeps+ci" -> PackageJson(NullSec, Sec(EmptyDict)) \o GitlabCi
      [] n = "nonstr+py" ->
            PackageJson(Sec(V("@angular/core", NonStr)), Sec(EmptyDict)) \o Requirements
      [] n = "binary" -> <<FileAt(InProj(<<<<"package.json">>>>), BinaryData)>>
      [] n = "vue+ci" ->
            PackageJson(Sec(V("vue", <<"3", ".", "2">>)), Sec(V("nuxt", <<"3">>))) \o GitlabCi
      [] n = "python" -> Requirements \o PyFiles
      [] n = "pyfiles" -> PyFiles
      [] n = "ci" -> GitlabCi

RulesDir == <<<<".cursor">>, <<"rules">>>>

\* what the project holds under .cursor before the server starts
Existing(v) ==
    CASE v = "none" -> << >>
      [] v = "cursorfile" -> <<FileAt(InProj(<<<<".cursor">>>>), RawData)>>
      [] v = "old" ->
            <<DirAt(InProj(<<<<".cursor">>>>)), DirAt(InProj(RulesDir)),
              FileAt(InProj(RulesDir \o <<<<"rules", MdcExt>>>>), Doc("old"))>>
      [] v = "rulesdir" ->
            <<DirAt(InProj(<<<<".cursor">>>>)), DirAt(InProj(RulesDir)),
              DirAt(InProj(RulesDir \o <<<<"rules", MdcExt>>>>))>>

Interpreter(kind, out, where) ==
    [run |-> [c \in {"python3", "python"} |-> Outcome(kind, out)],
     which |-> [c \in {"python3", "python"} |-> Outcome(kind, where)],
     dumps |-> "ok"]

NoCall == [op |-> "none"]

ProjPath == <<Sep, "proj">>

\* the state after the server has started in one of the worlds
InitWith(names, tvs, pres, envs, systems) ==
    /\ fs \in {Installation(tv) \o Project(n) \o Existing(v) :
                   tv \in tvs, n \in names, v \in pres}
    /\ cwd = <<<<"other">>>>
    /\ env \in envs
    /\ sys \in systems
    /\ call = NoCall
    /\ trace = << >>
    /\ result = EmptyDict
    /\ ncalls = 0
    /\ prev = NoCall
    /\ response = << >>

\* server.py lines 192-205: the response made of a result; [type, prefix, body] stands for
\* TextContent(type, text = prefix + json.dumps(body))
TextContent(prefix, body) == [type |-> "text", prefix |-> prefix, body |-> body]

\* the whole of handle_call_tool without its "except Exception": the exception of
\* json.dumps leaves the handler and no response is made
handle_call_tool_unguarded(name, arguments, res, S) ==
    IF S.dumps = "raise" THEN << >>
    ELSE <<TextContent(IF HasKey(res, "success") /\ res["success"] = TRUE
                       THEN "Exito" ELSE "Error", res)>>

\* server.py lines 149-221, after the tool has returned res
handle_call_tool(name, arguments, res, S) ==
    IF S.dumps = "raise"
    THEN <<TextContent("Error critico",
               Put(Put(Put(Put(EmptyDict,
                   "success", FALSE),
                   "error", Msg("Error inesperado: {e}", TypeErrorText)),
                   "tool", name),
                   "arguments", arguments))>>
    ELSE <<TextContent(IF HasKey(res, "success") /\ res["success"] = TRUE
                       THEN "Exito" ELSE "Error", res)>>

\* server.py lines 182-187: the result for a name that is none of the four tools
UnknownToolResult(name) ==
    Put(Put(Put(EmptyDict,
        "success", FALSE),
        "error", Msg("Tool desconocido: {name}", <<name>>)),
        "available_tools",
            <<"generate_rules", "analyze_project", "detect_technology",
              "list_supported_technologies">>)

\* handle_call_tool, name == "analyze_project" (server.py lines 168-172)
AnalyzeProject(project_path) ==
    \E r \in {analyze_project_tool(fs, sys, cwd, env, project_path)} :
        /\ ncalls < MaxCalls
        /\ call' = [op |-> "analyze_project", project_path |-> project_path,
                    path |-> get_project_path_from_context(cwd, env, project_path)]
        /\ trace' = r.trace
        /\ result' = r.result
        /\ response' = handle_call_tool("analyze_project", [project_path |-> project_path],
                                        r.result, sys)
        /\ ncalls' = ncalls + 1
        /\ prev' = call
        /\ UNCHANGED <<fs, cwd, env, sys>>

\* handle_call_tool, name == "detect_technology" (server.py lines 174-177)
DetectTechnology(project_path) ==
    \E r \in {detect_technology_tool(fs, sys, cwd, env, project_path)} :
        /\ ncalls < MaxCalls
        /\ call' = [op |-> "detect_technology", project_path |-> project_path,
                    path |-> get_project_path_from_context(cwd, env, project_path)]
        /\ trace' = r.trace
        /\ result' = r.result
        /\ response' = handle_call_tool("detect_technology", [project_path |-> project_path],
                                        r.result, sys)
        /\ ncalls' = ncalls + 1
        /\ prev' = call
        /\ UNCHANGED <<fs, cwd, env, sys>>

\* handle_call_tool, name == "list_supported_technologies" (server.py lines 179-180)
ListSupportedTechnologies ==
    /\ ncalls < MaxCalls
    /\ call' = [op |-> "list_supported_technologies"]
    /\ trace' = << >>
    /\ result' = list_supported_technologies_tool
    /\ response' = handle_call_tool("list_supported_technologies", EmptyDict,
                                    list_supported_technologies_tool, sys)
    /\ ncalls' = ncalls + 1
    /\ prev' = call
    /\ UNCHANGED <<fs, cwd, env, sys>>

\* handle_call_tool with a name that is none of the four tools (server.py lines 182-187)
UnknownTool(name) ==
    /\ ncalls < MaxCalls
    /\ call' = [op |-> "unknown", name |-> name]
    /\ trace' = << >>
    /\ result' = UnknownToolResult(name)
    /\ response' = handle_call_tool(name, EmptyDict, UnknownToolResult(name), sys)
    /\ ncalls' = ncalls + 1
    /\ prev' = call
    /\ UNCHANGED <<fs, cwd, env, sys>>

\* handle_call_tool, name == "generate_rules" (server.py lines 159-166); fault is what
\* the operating system refuses during this call
GenerateRules(a, fault) ==
    \E r \in {generate_rules_tool(fs, sys, cwd, env, a.project_path, a.output_filename,
                                   a.custom_rules_path, a.project_type, fault)} :
        /\ ncalls < MaxCalls
        /\ call' = [op |-> "generate_rules", project_path |-> a.project_path,
                    output_filename |-> a.output_filename,
                    custom_rules_path |-> a.custom_rules_path,
                    project_type |-> a.project_type, fault |-> fault,
                    path |-> r.way.path, way |-> r.way]
        /\ trace' = r.trace
        /\ result' = r.result
        /\ response' = handle_call_tool("generate_rules", a, r.result, sys)
        /\ fs' = r.fs
        /\ ncalls' = ncalls + 1
        /\ prev' = call
        /\ UNCHANGED <<cwd, env, sys>>

GenArgs(pp, fn, cp, pt) ==
    [project_path |-> pp, output_filename |-> fn, custom_rules_path |-> cp, project_type |-> pt]

----
(* Detection: the projects of every category, no faults *)

Python311 ==
    Interpreter("ok", <<"Python", " ", "3", ".", "1", "1", ".", "4">>,
                <<"/", "usr", "/", "bin", "/", "python3">>)

NoPython == Interpreter("notfound", << >>, << >>)

MissingPath == <<Sep, "missing">>

FilePath == <<Sep, "file">>

Init ==
    InitWith({"empty", "boot+ci", "boot+legacy", "legacy", "angular+py", "nulldeps+ci",
              "nonstr+py", "binary", "vue+ci", "pyfiles"},
             {"all"}, {"none"}, {NoneV, MissingPath}, {Python311})

Next ==
    \/ \E p \in {ProjPath, MissingPath, FilePath, NoneV} : AnalyzeProject(p)
    \/ \E p \in {ProjPath, MissingPath, FilePath} : DetectTechnology(p)
    \/ ListSupportedTechnologies
    \/ \E a \in {GenArgs(pp, <<"rules">>, NoneV, None) : pp \in {ProjPath, MissingPath, FilePath}}
                \cup {GenArgs(ProjPath, <<"rules">>, <<Sep, "nope", MdcExt>>, None)} :
           GenerateRules(a, NoFault)

Spec == Init /\ [][Next]_vars

----
(* Generation: categories, templates, custom rules and output names, no faults *)

CustomPath == <<Sep, "custom", MdcExt>>

GenInputs ==
    {GenArgs(ProjPath, <<"rules">>, NoneV, None),
     GenArgs(ProjPath, <<"rules", MdcExt>>, NoneV, None),
     GenArgs(ProjPath, <<"rules">>, CustomPath, None),
     GenArgs(ProjPath, <<"rules">>, <<Sep, "nope", MdcExt>>, None),
     GenArgs(ProjPath, <<"rules">>, <<Sep, "binary", MdcExt>>, None),
     GenArgs(ProjPath, <<"rules">>, <<Sep, "empty", MdcExt>>, None),
     GenArgs(ProjPath, <<"rules">>, NoneV, "rust"),
     GenArgs(ProjPath, <<"rules">>, NoneV, "angular"),
     GenArgs(ProjPath, <<"rules">>, CustomPath, "angular"),
     GenArgs(ProjPath, <<"notes", ".md">>, NoneV, "vue"),
     GenArgs(ProjPath, << >>, NoneV, ""),
     GenArgs(ProjPath, <<"..", Sep, "..", Sep, "x">>, NoneV, None),
     GenArgs(ProjPath, <<Sep, "other", Sep, "x">>, NoneV, "vue"),
     GenArgs(ProjPath, <<"sub", Sep, "x">>, NoneV, None)}

InitGenerate ==
    InitWith({"angular+py", "python"}, {"all", "missing", "unreadable", "binary"}, {"none"},
             {NoneV}, {NoPython})

NextGenerate ==
    \/ AnalyzeProject(ProjPath)
    \/ DetectTechnology(ProjPath)
    \/ ListSupportedTechnologies
    \/ \E a \in GenInputs : GenerateRules(a, NoFault)

SpecGenerate == InitGenerate /\ [][NextGenerate]_vars

----
(* Writing: what the operating system can refuse *)

Fault(mk, smk, open, write, kept) ==
    [mk |-> mk, smk |-> smk, open |-> open, write |-> write, kept |-> kept]

Faults ==
    {NoFault, Fault(1, 0, FALSE, 0, 0), Fault(2, 0, FALSE, 0, 0), Fault(0, 1, FALSE, 0, 0),
     Fault(0, 0, TRUE, 0, 0), Fault(0, 0, FALSE, 1, 0), Fault(0, 0, FALSE, 2, 1),
     Fault(0, 0, FALSE, 3, 2), Fault(0, 0, FALSE, 4, 3), Fault(0, 0, FALSE, 4, 0)}

WriteInputs ==
    {GenArgs(ProjPath, <<"rules">>, NoneV, None),
     GenArgs(ProjPath, <<"sub", Sep, "x">>, NoneV, "vue")}

InitWrite ==
    InitWith({"boot+ci", "ci"}, {"all"}, {"none", "cursorfile", "old", "rulesdir"},
             {ProjPath}, {NoPython})

NextWrite ==
    \/ AnalyzeProject(NoneV)
    \/ DetectTechnology(NoneV)
    \/ ListSupportedTechnologies
    \/ \E a \in WriteInputs, f \in Faults : GenerateRules(a, f)

SpecWrite == InitWrite /\ [][NextWrite]_vars

----
(* Interpreters: virtual environments and system interpreters that answer or hang *)

Hanging == Interpreter("hangs", << >>, << >>)

WhichHangs == [Python311 EXCEPT !.which = Hanging.which]

InitInterpreters ==
    InitWith({"venv-hangs", "venv-hangs+pyenv", "venv-ok", "python"}, {"all"}, {"none"},
             {NoneV}, {Python311, NoPython, Hanging, WhichHangs})

NextInterpreters ==
    \/ \E p \in {ProjPath, MissingPath} : AnalyzeProject(p)
    \/ \E p \in {ProjPath, MissingPath} : DetectTechnology(p)
    \/ ListSupportedTechnologies
    \/ GenerateRules(GenArgs(ProjPath, <<"rules">>, NoneV, None), NoFault)

SpecInterpreters == InitInterpreters /\ [][NextInterpreters]_vars

----
(* Manifests: projects whose pom.xml is not well-formed XML *)

InitManifests ==
    InitWith({"badpom", "badpom+ci", "badpom+bootgradle", "badpom+appyml", "badpom+webinf",
              "badpom+py", "boot+ci", "legacy"},
             {"all"}, {"none"}, {NoneV}, {Python311, NoPython})

NextManifests ==
    \/ \E p \in {ProjPath, MissingPath} : AnalyzeProject(p)
    \/ \E p \in {ProjPath, MissingPath} : DetectTechnology(p)
    \/ ListSupportedTechnologies
    \/ GenerateRules(GenArgs(ProjPath, <<"rules">>, NoneV, None), NoFault)

SpecManifests == InitManifests /\ [][NextManifests]_vars

----
(* RuleSet on its own: generate and _adapt_rules applied to categories, attribute      *)
(* mappings and template bodies drawn from small sets                                  *)

Ver(a, b, c) == <<a, ".", b, ".", c>>

AttributeMappings ==
    {EmptyDict,
     [spring_boot_version |-> Ver("1", "4", "2"), spring_boot_major_version |-> 1,
      is_legacy |-> TRUE, security_priority |-> "high", uses_actuator |-> TRUE],
     [spring_boot_major_version |-> 3, is_latest |-> TRUE, uses_spring_security |-> TRUE,
      uses_actuator |-> TRUE, security_priority |-> "low"],
     [spring_boot_version |-> Ver("2", "7", "0")],
     [angular_major_version |-> 17, supports_standalone |-> TRUE, new_control_flow |-> TRUE,
      uses_angular_material |-> TRUE, has_ssr |-> TRUE],
     [uses_angular_material |-> TRUE, is_pwa |-> TRUE],
     [spring_framework_version |-> Ver("3", "2", "1"), spring_major_version |-> 3,
      is_legacy |-> TRUE, uses_spring_security |-> TRUE, servlet_version |-> <<"2", ".", "5">>,
      servlet_legacy |-> TRUE, is_maven |-> TRUE, security_priority |-> "critical"],
     [spring_major_version |-> 2, is_maven |-> TRUE, is_gradle |-> TRUE,
      jsp_files_count |-> 2],
     [python_indicators |-> <<"requirements.txt">>, is_django |-> TRUE, debug_enabled |-> TRUE,
      is_flask |-> TRUE, has_docker |-> TRUE, security_priority |-> "high"],
     [is_fastapi |-> TRUE, has_pytest |-> TRUE, has_wsgi |-> TRUE]}

\* the categories of the registry, one that it does not know, and no category
Categories == ProjectTypes \cup {"rust", None}

TemplateBodies == {<< >>, <<Blk("body", <<"a">>), NL, Blk("body", <<"b">>)>>}

\* RuleSet(project_type, detected_tech).generate()
RuleSetGenerate(project_type, detected_tech) ==
    /\ ncalls < MaxRuns
    /\ call' = [op |-> "generate", type |-> project_type, tech |-> detected_tech]
    /\ trace' = << >>
    /\ result' = generate(fs, cwd, project_type, detected_tech)
    /\ ncalls' = ncalls + 1
    /\ prev' = call
    /\ UNCHANGED <<fs, cwd, env, sys, response>>

\* RuleSet(project_type, detected_tech)._adapt_rules(base_rules_content)
AdaptRules(project_type, detected_tech, base_rules_content) ==
    /\ ncalls < MaxRuns
    /\ call' = [op |-> "_adapt_rules", type |-> project_type, tech |-> detected_tech,
                base |-> base_rules_content]
    /\ trace' = << >>
    /\ result' = adapt_rules(project_type, detected_tech, base_rules_content)
    /\ ncalls' = ncalls + 1
    /\ prev' = call
    /\ UNCHANGED <<fs, cwd, env, sys, response>>

InitRuleSet ==
    InitWith({"empty"}, {"all", "unreadable", "binary"}, {"none"}, {NoneV}, {NoPython})

NextRuleSet ==
    \/ \E c \in Categories, t \in AttributeMappings : RuleSetGenerate(c, t)
    \/ \E c \in Categories, t \in AttributeMappings, b \in TemplateBodies : AdaptRules(c, t, b)

SpecRuleSet == InitRuleSet /\ [][NextRuleSet]_vars

----
(* Vendored files: projects with files below dependency-cache, build-output and        *)
(* version-control directories                                                         *)

InitVendored ==
    InitWith({"build-vue", "nodemodules-vue-py", "target-py", "venv-py", "django+nodemodules",
              "pyfiles"},
             {"all"}, {"none"}, {NoneV}, {Python311, NoPython})

NextVendored ==
    \/ \E p \in {ProjPath, MissingPath} : AnalyzeProject(p)
    \/ \E p \in {ProjPath, MissingPath} : DetectTechnology(p)
    \/ ListSupportedTechnologies
    \/ GenerateRules(GenArgs(ProjPath, <<"rules">>, NoneV, None), NoFault)

SpecVendored == InitVendored /\ [][NextVendored]_vars

----
(* Versions: projects whose manifests declare the versions that the probes classify *)

InitVersions ==
    InitWith({"boot-1.4.2", "boot-2.7.5", "boot-3.2.1", "boot-12.0.0", "boot-0.9.0",
              "boot-2.7.5-plain",
              "spring-prop4.3-dep3.2-gradle2.5", "spring-prop4.3-dep3.2",
              "spring-dep3.2-gradle2.5", "spring-prop3.2-dep3.2",
              "spring-1.2", "spring-2.0", "spring-2.5", "spring-3.0", "spring-3.1", "spring-3.2",
              "spring-3.10", "spring-4.3", "spring-5.0", "spring-0.9"},
             {"all"}, {"none"}, {NoneV}, {NoPython})

NextVersions ==
    \/ \E p \in {ProjPath, MissingPath} : AnalyzeProject(p)
    \/ \E p \in {ProjPath, MissingPath} : DetectTechnology(p)
    \/ ListSupportedTechnologies
    \/ GenerateRules(GenArgs(ProjPath, <<"rules">>, NoneV, None), NoFault)

SpecVersions == InitVersions /\ [][NextVersions]_vars

----
(* Serving: arguments of any type, unknown tools, and a result that cannot be formatted *)

Unformattable == [Python311 EXCEPT !.dumps = "raise"]

ServeInputs ==
    {GenArgs(ProjPath, <<"rules">>, NoneV, None),
     GenArgs(NonStr, <<"rules">>, NoneV, None),
     GenArgs(ProjPath, <<"rules">>, <<Sep, "binary", MdcExt>>, None),
     GenArgs(ProjPath, <<"rules">>, NoneV, "python")}

InitServe ==
    InitWith({"empty", "boot+ci", "nulldeps+ci"}, {"all", "binary"}, {"none", "cursorfile"},
             {NoneV}, {Python311, Unformattable})

NextServe ==
    \/ \E p \in {ProjPath, NonStr, NoneV} : AnalyzeProject(p)
    \/ \E p \in {ProjPath, NonStr, NoneV} : DetectTechnology(p)
    \/ ListSupportedTechnologies
    \/ \E a \in ServeInputs : GenerateRules(a, NoFault)
    \/ \E n \in {"refactor", ""} : UnknownTool(n)

SpecServe == InitServe /\ [][NextServe]_vars

----
(* Version sources: Python projects whose virtual environment and files name versions *)

InitSources ==
    InitWith({"src-all", "src-pyenv", "src-pyproject", "src-pipfile", "src-setup",
              "src-badpyenv+pipfile", "src-badpyproject+setup", "src-pipfile-star",
              "src-pipfile-3x+setup", "venv-hangs+pyenv", "python"},
             {"all"}, {"none"}, {NoneV}, {Python311, NoPython})

NextSources ==
    \/ \E p \in {ProjPath, MissingPath} : AnalyzeProject(p)
    \/ \E p \in {ProjPath, MissingPath} : DetectTechnology(p)
    \/ ListSupportedTechnologies
    \/ GenerateRules(GenArgs(ProjPath, <<"rules">>, NoneV, None), NoFault)

SpecSources == InitSources /\ [][NextSources]_vars

----
(* Markers: output names that lead out of .cursor/rules to the places the probes test *)

MarkerInputs ==
    {GenArgs(ProjPath, <<"rules">>, NoneV, None),
     GenArgs(ProjPath, <<"sub", Sep, "x">>, NoneV, None),
     GenArgs(ProjPath, <<"..", Sep, "..", Sep, "Dockerfile", Sep, "rules">>, NoneV, None),
     GenArgs(ProjPath, <<"..", Sep, "..", Sep, "src", Sep, "main", Sep, "webapp", Sep,
                         "WEB-INF", Sep, "web.xml", Sep, "rules">>, NoneV, None),
     GenArgs(ProjPath, <<"..", Sep, "..", Sep, ".gitlab-ci.yml", Sep, "rules">>, NoneV, "vue")}

InitMarkers ==
    InitWith({"python", "pyfiles", "ci", "vue+ci", "legacy", "empty"}, {"all"}, {"none"},
             {NoneV}, {NoPython})

NextMarkers ==
    \/ AnalyzeProject(ProjPath)
    \/ DetectTechnology(ProjPath)
    \/ ListSupportedTechnologies
    \/ \E a \in MarkerInputs : GenerateRules(a, NoFault)

SpecMarkers == InitMarkers /\ [][NextMarkers]_vars

----
(* Pages: legacy projects with JSP files in several places, and one below /builds *)

BuildsProjPath == <<Sep, "builds", Sep, "proj">>

InitPages ==
    InitWith({"legacy", "jsp-pages", "jsp-two", "jsp-target", "jsp-targets",
              "jsp-context-views", "jsp-in-builds"},
             {"all"}, {"none"}, {NoneV}, {NoPython})

NextPages ==
    \/ \E p \in {ProjPath, BuildsProjPath} : AnalyzeProject(p)
    \/ \E p \in {ProjPath, BuildsProjPath} : DetectTechnology(p)
    \/ ListSupportedTechnologies
    \/ GenerateRules(GenArgs(ProjPath, <<"rules">>, NoneV, None), NoFault)

SpecPages == InitPages /\ [][NextPages]_vars

----
(* Findings: Python projects with and without debug flags, secret keys and risky packages *)

InitFindings ==
    InitWith({"py-safe", "py-risky", "py-django-debug", "py-django-secret", "py-django-quiet",
              "py-django-all", "py-flask", "py-flask-debug", "py-flask-debug-risky",
              "py-app-debug-noflask", "pyfiles"},
             {"all"}, {"none"}, {NoneV}, {Python311})

NextFindings ==
    \/ \E p \in {ProjPath, MissingPath} : AnalyzeProject(p)
    \/ \E p \in {ProjPath, MissingPath} : DetectTechnology(p)
    \/ ListSupportedTechnologies
    \/ GenerateRules(GenArgs(ProjPath, <<"rules">>, NoneV, None), NoFault)

SpecFindings == InitFindings /\ [][NextFindings]_vars

----
(* Path context: provided paths, CURSOR_WORKSPACE values and working directories *)

RelProjPath == <<"proj">>

UpProjPath == <<"..", Sep, "proj">>

PathInputs == {NoneV, << >>, ProjPath, RelProjPath, UpProjPath}

InitPaths ==
    /\ fs \in {Installation("all") \o Project(n) \o Existing("none") : n \in {"boot+ci"}}
    /\ cwd \in {<<<<"other">>>>, <<<<"proj">>>>, << >>}
    /\ env \in {NoneV, << >>, MissingPath, RelProjPath}
    /\ sys = NoPython
    /\ call = NoCall
    /\ trace = << >>
    /\ result = EmptyDict
    /\ ncalls = 0
    /\ prev = NoCall
    /\ response = << >>

NextPaths ==
    \/ \E p \in PathInputs : AnalyzeProject(p)
    \/ \E p \in PathInputs : DetectTechnology(p)
    \/ ListSupportedTechnologies
    \/ \E p \in {NoneV, RelProjPath} : GenerateRules(GenArgs(p, <<"rules">>, NoneV, None), NoFault)

SpecPaths == InitPaths /\ [][NextPaths]_vars

----
(* Detection claims, checked under Spec *)

\* C1: analyze_project calls the probes in the order check_spring_boot,
\* check_java_legacy, check_angular, check_vue, check_python, check_gitlab_ci; the
\* first probe that answers with a category decides: its category and its attributes,
\* and nothing else, are the result, and no later probe is called.  A directory that
\* satisfies two categories gets the earlier one, and a repeated run over the
\* unchanged filesystem gives the same result.
C1_FirstMatchingProbeDecides ==
    /\ [](LET order == <<"check_spring_boot", "check_java_legacy", "check_angular",
                         "check_vue", "check_python", "check_gitlab_ci">>
              alone(i) == RunChecker(order[i], fs, sys, cwd, call.path)
              hits == {i \in 1..6 : ~alone(i).raised /\ alone(i).type # None}
          IN  (/\ call.op \in {"analyze_project", "detect_technology"}
               /\ IsDir(fs, Resolve(cwd, call.path))
               /\ hits # {})
              => LET k == CHOOSE i \in hits : \A j \in hits : i <= j
                 IN  /\ [i \in 1..Len(trace) |-> trace[i].probe] = SubSeq(order, 1, k)
                     /\ result["success"] = TRUE
                     /\ IF call.op = "analyze_project"
                        THEN /\ result["project_type"] = alone(k).type
                             /\ result["detected_technologies"] = alone(k).details
                        ELSE /\ result["technology"].project_type = alone(k).type
                             /\ result["raw_details"] = alone(k).details)
    /\ [][(/\ call.op \in {"analyze_project", "detect_technology"}
           /\ call'.op = call.op
           /\ call'.path = call.path
           /\ fs' = fs)
          => (result' = result /\ trace' = trace)]_vars

\* a second analysis of a project that is both a Spring Boot and a GitLab CI project
C1_Witness ==
    /\ call.op = "analyze_project"
    /\ ncalls = 2
    /\ HasKey(result, "project_type")
    /\ result["project_type"] = "springboot"
    /\ Len(trace) = 1
    /\ check_gitlab_ci(fs, cwd, call.path).type = "gitlab_ci"

\* C2: a probe that raises inside analyze_project counts as a non-match: the next
\* probe is still called, analyze_project does not raise, and the attributes of the
\* result are those of the matching probe alone.
C2_RaisingProbeIsNoMatch ==
    call.op \in {"analyze_project", "detect_technology"} =>
        \A i \in 1..Len(trace) :
            trace[i].raised =>
                /\ i < Len(PROJECT_CHECKERS) => Len(trace) > i
                /\ ~result["success"] =>
                       result["error"].msg \notin {"Error durante el analisis: {e}",
                                                   "Error detectando tecnologias: {e}"}
                /\ result["success"] =>
                       /\ ~trace[Len(trace)].raised
                       /\ (IF call.op = "analyze_project" THEN result["detected_technologies"]
                           ELSE result["raw_details"]) = trace[Len(trace)].details

\* check_angular raised after it had stored an attribute, and check_python matched
C2_Witness ==
    /\ call.op = "analyze_project"
    /\ \E i \in 1..Len(trace) : trace[i].raised /\ DOMAIN trace[i].details # {}
    /\ HasKey(result, "project_type")
    /\ result["project_type"] = "python"

\* C6: in an existing directory where no probe matches, analyze_project returns
\* (None, {}): the two detection tools answer success = false without an exception,
\* and generation without an override answers success = false with a suggestion and
\* leaves the filesystem as it was.
C6_NothingDetected ==
    [][LET order == <<"check_spring_boot", "check_java_legacy", "check_angular",
                      "check_vue", "check_python", "check_gitlab_ci">>
           alone(i) == RunChecker(order[i], fs, sys, cwd, call'.path)
       IN  (/\ call'.op \in {"analyze_project", "detect_technology", "generate_rules"}
            /\ call'.op = "generate_rules" => call'.project_type \in {None, ""}
            /\ IsDir(fs, Resolve(cwd, call'.path))
            /\ \A i \in 1..6 : alone(i).raised \/ alone(i).type = None)
           => /\ result'["success"] = FALSE
              /\ result'["error"].msg \in {"No se pudo detectar el tipo de proyecto automaticamente",
                                           "No se detectaron tecnologias reconocidas",
                                           "No se pudo detectar el tipo de proyecto"}
              /\ Len(trace') = 6
              /\ call'.op = "generate_rules" =>
                     /\ HasKey(result', "suggestion")
                     /\ call'.way.type = None
                     /\ call'.way.tech = EmptyDict
                     /\ fs' = fs]_vars

\* generation without an override in a project that no probe recognises
C6_Witness ==
    /\ call.op = "generate_rules"
    /\ call.project_type = None
    /\ call.path = ProjPath
    /\ Len(trace) = 6
    /\ HasKey(result, "suggestion")

\* C7: when the resolved project path does not exist or is not a directory, each of
\* the three path-taking tools answers success = false with an error text that names
\* the path, raises nothing, calls no probe and leaves the filesystem as it was.
C7_InvalidPath ==
    [][LET root == IF Truthy(call'.project_path) THEN abspath(cwd, call'.project_path)
                   ELSE IF Truthy(env) THEN env
                   ELSE Unsplit(cwd)
       IN  (/\ call'.op \in {"analyze_project", "detect_technology", "generate_rules"}
            /\ ~IsDir(fs, Resolve(cwd, root)))
           => /\ result'["success"] = FALSE
              /\ result'["error"] = Msg("La ruta '{path}' no existe o no es un directorio", root)
              /\ trace' = << >>
              /\ fs' = fs]_vars

\* generation asked for a path that is a regular file
C7_Witness ==
    /\ call.op = "generate_rules"
    /\ call.project_path = FilePath
    /\ IsFile(fs, Resolve(cwd, FilePath))
    /\ HasKey(result, "error")

----
(* Generation claims, checked under SpecGenerate *)

\* C3: when the resolved category has no template (an override outside the six
\* categories, or a template file that is missing or unreadable), generate_rules_tool
\* answers success = false and writes no file.
C3_NoTemplateFails ==
    [][LET t == call'.way.type
           tp == Resolve(cwd, join2(TEMPLATES_DIR, PROJECT_TYPES_TEMPLATES[t]))
       IN  (/\ call'.op = "generate_rules"
            /\ IsDir(fs, Resolve(cwd, call'.path))
            /\ t # None
            /\ \/ t \notin ProjectTypes
               \/ ~IsFile(fs, tp)
               \/ Data(fs, tp).k \in {"bad", "binary"})
           => (result'["success"] = FALSE /\ fs' = fs)]_vars

\* C4: when custom_rules_path names an existing readable file with content, the
\* written document holds that content, and differs from the document the same call
\* writes without custom_rules_path.
C4_CustomRulesMerged ==
    [][LET cp == Resolve(cwd, call'.custom_rules_path)
           out == Resolve(cwd, call'.way.output_path)
           plain == generate_rules_tool(fs, sys, cwd, env, call'.project_path,
                                        call'.output_filename, NoneV, call'.project_type,
                                        call'.fault)
       IN  (/\ call'.op = "generate_rules"
            /\ Truthy(call'.custom_rules_path)
            /\ IsFile(fs, cp)
            /\ Data(fs, cp).k = "doc"
            /\ load_mdc_file(fs, cwd, call'.custom_rules_path).content # << >>
            /\ call'.way.saved)
           => /\ \A i \in 1..Len(call'.way.custom) :
                     \E j \in 1..Len(Data(fs', out).chunks) :
                         /\ Data(fs', out).chunks[j].a = call'.way.custom[i].a
                         /\ Data(fs', out).chunks[j].v = call'.way.custom[i].v
              /\ Data(fs', out) # Data(plain.fs, out)]_vars

\* C8: a non-empty project_type override bypasses detection: no probe is called, the
\* attributes handed to the generator are empty, and the written document is the
\* template itself, header and body, with no adaptation block (the empty document when
\* the category has no template).
C8_OverrideBypassesDetection ==
    [][LET t == call'.project_type
           tp == Resolve(cwd, join2(TEMPLATES_DIR, PROJECT_TYPES_TEMPLATES[t]))
           out == Resolve(cwd, call'.way.output_path)
       IN  (/\ call'.op = "generate_rules"
            /\ t \notin {None, ""}
            /\ IsDir(fs, Resolve(cwd, call'.path)))
           => /\ trace' = << >>
              /\ call'.way.type = t
              /\ call'.way.tech = EmptyDict
              /\ result'["success"] =>
                     Data(fs', out).chunks =
                         IF t \in ProjectTypes /\ IsFile(fs, tp) /\ Data(fs, tp).k = "doc"
                         THEN Data(fs, tp).chunks
                         ELSE << >>]_vars

\* the category angular imposed on a project in which detection finds attributes
C8_Witness ==
    /\ call.op = "generate_rules"
    /\ call.project_type = "angular"
    /\ call.way.saved
    /\ Data(fs, Resolve(cwd, call.way.output_path)).chunks # << >>
    /\ analyze_project(fs, sys, cwd, call.path).details # EmptyDict

\* C9: for every output_filename the written file lies inside <root>/.cursor/rules,
\* and its name is output_filename, with ".mdc" appended exactly when output_filename
\* does not end in ".mdc".
C9_OutputInsideRulesDir ==
    [][LET dir == Resolve(cwd, call'.path) \o <<<<".cursor">>, <<"rules">>>>
           out == Resolve(cwd, call'.way.output_path)
           name == IF call'.output_filename # << >>
                      /\ call'.output_filename[Len(call'.output_filename)] = ".mdc"
                   THEN call'.output_filename
                   ELSE call'.output_filename \o <<".mdc">>
       IN  (call'.op = "generate_rules" /\ call'.way.saved)
           => /\ IsFile(fs', out)
              /\ Len(out) > Len(dir)
              /\ SubSeq(out, 1, Len(dir)) = dir
              /\ call'.way.output_path = Unsplit(dir) \o <<Sep>> \o name]_vars

----
(* Writing claims, checked under SpecWrite *)

\* C5: if writing fails at any step (creating the directory, opening the file, or any
\* of the writes), the output path either holds the complete new document or is
\* exactly as it was before the call.
C5_NoPartialFile ==
    [][LET out == Resolve(cwd, OutputPath(call'.path, call'.output_filename))
           whole == Concat(Writes(call'.way.final), Len(Writes(call'.way.final)))
       IN  (call'.op = "generate_rules" /\ call'.way.final.st = "ok")
           => \/ IsFile(fs', out) /\ Data(fs', out) = DocData(whole)
              \/ /\ Exists(fs', out) = Exists(fs, out)
                 /\ Exists(fs, out) => fs'[Entry(fs', out)] = fs[Entry(fs, out)]]_vars

\* C10: whenever the output directory or the output file cannot be created or
\* written, the answer is success = false with an error text that includes the
\* attempted output path, for a failure of the directory creation as for a failure of
\* save_mdc_file.
C10_WriteFailureNamesPath ==
    [][LET p == OutputPath(call'.path, call'.output_filename)
           e == result'["error"].arg
       IN  (call'.op = "generate_rules" /\ call'.way.final.st = "ok" /\ ~call'.way.saved)
           => /\ result'["success"] = FALSE
              /\ \E i \in 0..(Len(e) - Len(p)) : SubSeq(e, i + 1, i + Len(p)) = p]_vars

----
(* Claims on repeated generation and on adaptation, checked under SpecGenerate *)

----
(* Serving claims, checked under SpecServe *)

\* C12: no exception leaves an operation.  Whatever was called, handle_call_tool has
\* returned exactly one text response.  A tool that was given a non-string path, a
\* custom rules file that cannot be decoded, a template that cannot be decoded or a
\* .cursor that is a regular file answers success = false with an error; so does an
\* unknown tool name; and when the result cannot be formatted the one response carries
\* a success = false error object that names the tool.
C12_NoExceptionEscapes ==
    ncalls > 0 =>
        /\ Len(response) = 1
        /\ response[1].type = "text"
        /\ HasKey(result, "success")
        /\ result["success"] \in BOOLEAN
        /\ result["success"] = FALSE => HasKey(result, "error")
        /\ (/\ call.op \in {"analyze_project", "detect_technology", "generate_rules"}
            /\ call.project_path = NonStr)
           => result["success"] = FALSE
        /\ (/\ call.op = "generate_rules"
            /\ call.project_path = ProjPath
            /\ \/ call.custom_rules_path = <<Sep, "binary", MdcExt>>
               \/ IsFile(fs, InProj(<<<<".cursor">>>>))
               \/ /\ call.project_type = "python"
                  /\ Data(fs, <<<<"app">>, <<"templates">>, <<"python", MdcExt>>>>).k = "binary")
           => result["success"] = FALSE
        /\ call.op = "unknown" => result["success"] = FALSE
        /\ sys.dumps = "ok" => response[1].body = result
        /\ sys.dumps = "raise"
           => /\ response[1].body["success"] = FALSE
              /\ HasKey(response[1].body, "error")
              /\ response[1].body["tool"] =
                     IF call.op = "unknown" THEN call.name ELSE call.op

\* a tool converted the TypeError of a non-string path, and the result could not be
\* formatted either
C12_Witness ==
    /\ call.op = "analyze_project"
    /\ call.project_path = NonStr
    /\ result["success"] = FALSE
    /\ sys.dumps = "raise"
    /\ Len(response) = 1

\* C13: every result of the four operations holds a boolean success flag and a message,
\* holds an error exactly when success is false, and holds result data exactly when
\* success is true.
C13_ResultShape ==
    call.op \in {"generate_rules", "analyze_project", "detect_technology",
                 "list_supported_technologies"}
    => /\ HasKey(result, "success")
       /\ result["success"] \in BOOLEAN
       /\ HasKey(result, "message")
       /\ HasKey(result, "error") <=> (result["success"] = FALSE)
       /\ (DOMAIN result \cap {"detected_technologies", "technology", "raw_details",
                               "output_file", "technologies_detected", "details",
                               "supported_technologies"} # {})
          <=> (result["success"] = TRUE)

----
(* Interpreter claims, checked under SpecInterpreters *)

----
(* Manifest claims, checked under SpecManifests *)

\* the filesystem without the entry at p
Without(F, p) == SelectSeq(F, LAMBDA e : e.path # p)

\* C15: a pom.xml that cannot be parsed never makes analyze_project raise or stop.
\* check_spring_boot takes no attribute from it and still decides on build.gradle and
\* on application.properties/yml/yaml; check_java_legacy answers as it would without
\* the file, apart from noting that the file exists, so build.gradle and web.xml are
\* still evaluated; and when neither matches, the lower-priority probes are run in
\* order up to the first match.
C15_UnparsablePomSkipped ==
    LET pom == Resolve(cwd, join(call.path, <<"pom.xml">>))
    IN  (/\ call.op \in {"analyze_project", "detect_technology"}
         /\ isdir(fs, cwd, call.path)
         /\ IsFile(fs, pom)
         /\ Data(fs, pom).k = "pom"
         /\ ~Data(fs, pom).ok)
        => /\ Len(trace) >= 1
           /\ \A i \in 1..Len(trace) : trace[i].probe = PROJECT_CHECKERS[i]
           /\ ~trace[1].raised
           /\ trace[1].details = EmptyDict
           /\ (trace[1].type = "springboot")
                  <=> (BootGradleMatch(fs, cwd, call.path) \/ BootAppConfig(fs, cwd, call.path))
           /\ trace[1].type = None =>
                  LET bare == check_java_legacy(Without(fs, pom), cwd, call.path)
                  IN  /\ Len(trace) >= 2
                      /\ ~trace[2].raised
                      /\ trace[2].type = bare.type
                      /\ trace[2].details =
                             (IF bare.type = None THEN EmptyDict
                              ELSE Put(bare.details, "is_maven", TRUE))
           /\ (\A i \in 1..Len(trace) : trace[i].raised \/ trace[i].type = None)
                  => /\ Len(trace) = Len(PROJECT_CHECKERS)
                     /\ result["success"] = FALSE
                     /\ result["error"].msg \notin {"Error durante el analisis: {e}",
                                                   "Error detectando tecnologias: {e}"}
           /\ (\E i \in 1..Len(trace) : ~trace[i].raised /\ trace[i].type # None)
                  => /\ result["success"] = TRUE
                     /\ \A i \in 1..(Len(trace) - 1) : trace[i].raised \/ trace[i].type = None

\* a malformed pom.xml beside a requirements.txt: every probe up to check_python ran
C15_Witness ==
    /\ call.op = "analyze_project"
    /\ IsFile(fs, Resolve(cwd, join(call.path, <<"pom.xml">>)))
    /\ ~Data(fs, Resolve(cwd, join(call.path, <<"pom.xml">>))).ok
    /\ Len(trace) = 5
    /\ HasKey(result, "project_type")
    /\ result["project_type"] = "python"

----
(* RuleSet claims, checked under SpecRuleSet *)

\* two texts are the same pieces
SameText(q1, q2) ==
    /\ Len(q1) = Len(q2)
    /\ \A i \in 1..Len(q1) : q1[i].a = q2[i].a /\ q1[i].v = q2[i].v

\* the names of the blocks of a text, line breaks left out
RECURSIVE BlockNames(_)
BlockNames(q) ==
    IF q = << >> THEN << >>
    ELSE IF Head(q).a = NL.a THEN BlockNames(Tail(q))
    ELSE <<Head(q).a>> \o BlockNames(Tail(q))

\* no two names occur in one order in s1 and in the other order in s2
SameOrder(s1, s2) ==
    \A i, j \in 1..Len(s1) : \A k, l \in 1..Len(s2) :
        (i < j /\ s1[i] = s2[l] /\ s1[j] = s2[k]) => l < k

\* the file of the template of a category, as it is stored
TemplateFile(F, c, project_type) ==
    Resolve(c, join2(TEMPLATES_DIR, PROJECT_TYPES_TEMPLATES[project_type]))

\* C16: for every category and attribute mapping, the document that RuleSet.generate
\* produces has the header of the template, and its body begins with the body of the
\* template unchanged; what follows is a line break and the adaptation blocks, none of
\* them template text, no block twice, and any two blocks in the same relative order
\* for every attribute mapping.
C16_TemplateKeptBlocksAppended ==
    (call.op = "generate" /\ ~result.raised) =>
        LET known == call.type \in DOMAIN PROJECT_TYPES_TEMPLATES
            file == IF known THEN TemplateFile(fs, cwd, call.type) ELSE << >>
            stored == known /\ IsFile(fs, file) /\ Data(fs, file).k = "doc"
            text == IF stored THEN Data(fs, file).chunks ELSE << >>
            headed == text # << >> /\ text[1].a = FmOpen.a
            body == IF headed THEN SubSeq(text, 4, Len(text)) ELSE text
            n == Len(body)
            tail == SubSeq(result.content, n + 1, Len(result.content))
            names == BlockNames(tail)
        IN  /\ IF headed THEN SameText(result.frontmatter, <<text[2]>>)
               ELSE result.frontmatter = NoPieces
            /\ Len(result.content) >= n
            /\ SameText(SubSeq(result.content, 1, n), body)
            /\ tail # << >> => tail[1].a = NL.a /\ names # << >>
            /\ \A i \in 1..Len(names) : names[i] \notin {"body", "header", FmOpen.a, FmClose.a}
            /\ \A i, j \in 1..Len(names) : names[i] = names[j] => i = j
            /\ \A t \in AttributeMappings :
                   LET other == generate(fs, cwd, call.type, t)
                   IN  ~other.raised =>
                          SameOrder(names, BlockNames(SubSeq(other.content, n + 1,
                                                             Len(other.content))))

\* the Spring Boot document of a 1.x project: the template and five blocks after it
C16_Witness ==
    /\ call.op = "generate"
    /\ call.type = "springboot"
    /\ ~result.raised
    /\ result.frontmatter # NoPieces
    /\ Len(BlockNames(result.content)) >= 5
    /\ \E i \in 1..Len(result.content) : result.content[i].a = "boot.legacy_warning"

\* C17: for a category without an adaptation checklist (vue, gitlab_ci, an unknown
\* category or none) and any attribute mapping, and for every category when the
\* attribute mapping is empty, _adapt_rules returns the body it was given, unchanged.
C17_NoChecklistIsIdentity ==
    (/\ call.op = "_adapt_rules"
     /\ \/ call.type \notin {"angular", "springboot", "java_legacy_spring", "python"}
        \/ DOMAIN call.tech = {})
    => /\ ~result.raised
       /\ SameText(result.content, call.base)

\* _adapt_rules of a vue document with the attributes of a Django project
C17_Witness ==
    /\ call.op = "_adapt_rules"
    /\ call.type = "vue"
    /\ HasKey(call.tech, "is_django")
    /\ call.base # << >>
    /\ ~result.raised
    /\ Len(result.content) = Len(call.base)

----
(* Claims on vendored files, checked under SpecVendored *)

VendorDirs ==
    {<<"node_modules">>, <<"venv">>, <<".venv">>, <<"env">>, <<"__pycache__">>, <<"target">>,
     <<"build">>, <<".git">>}

\* the file at path p lies inside a vendor directory below the directory top
Vendored(p, top) ==
    /\ Len(p) > Len(top) + 1
    /\ SubSeq(p, 1, Len(top)) = top
    /\ \E i \in (Len(top) + 1)..(Len(p) - 1) : p[i] \in VendorDirs

\* the filesystem without the files inside the vendor directories of the project
WithoutVendored(F, top) == SelectSeq(F, LAMBDA e : e.dir \/ ~Vendored(e.path, top))

\* C18: detection neither reads nor counts a file inside node_modules, venv, .venv, env,
\* __pycache__, target, build or .git below the project root: the category and the
\* attributes are those of the same project without these files.
C18_VendoredFilesIgnored ==
    (call.op \in {"analyze_project", "detect_technology"} /\ isdir(fs, cwd, call.path))
    => LET bare == analyze_project(WithoutVendored(fs, Resolve(cwd, call.path)), sys, cwd,
                                   call.path)
       IN  IF bare.type = None THEN result["success"] = FALSE
           ELSE /\ result["success"] = TRUE
                /\ IF call.op = "analyze_project"
                   THEN /\ result["project_type"] = bare.type
                        /\ result["detected_technologies"] = bare.details
                   ELSE /\ result["technology"].project_type = bare.type
                        /\ result["raw_details"] = bare.details

----
(* Claims on what a call leaves behind, checked under Spec *)

\* C19: analyze_project_tool, detect_technology_tool and
\* list_supported_technologies_tool leave the filesystem as it was.  generate_rules_tool
\* changes it only when the path is a directory, a category was detected or given, the
\* custom rules file, if one is named, exists, and the rules were generated; a call
\* that fails on an invalid path, on no match or on a nonexistent custom_rules_path
\* leaves it as it was.
C19_DetectNeverWrites ==
    [][/\ call'.op \in {"analyze_project", "detect_technology", "list_supported_technologies"}
          => fs' = fs
       /\ (call'.op = "generate_rules" /\ fs' # fs)
          => /\ isdir(fs, cwd, call'.path)
             /\ call'.way.type # None
             /\ Truthy(call'.custom_rules_path) => exists(fs, cwd, call'.custom_rules_path)
             /\ call'.way.final.st = "ok"
       /\ (/\ call'.op = "generate_rules"
           /\ \/ ~isdir(fs, cwd, call'.path)
              \/ call'.way.type = None
              \/ Truthy(call'.custom_rules_path) /\ ~exists(fs, cwd, call'.custom_rules_path))
          => /\ result'["success"] = FALSE
             /\ result'["error"].msg \in
                    {"La ruta '{path}' no existe o no es un directorio",
                     "No se pudo detectar el tipo de proyecto",
                     "Archivo de reglas personalizadas no encontrado: {path}"}
             /\ fs' = fs]_vars

\* generation for a detected project failed on a custom rules file that does not exist,
\* after an earlier generation had written the rules
C19_Witness ==
    /\ call.op = "generate_rules"
    /\ Truthy(call.custom_rules_path)
    /\ ~exists(fs, cwd, call.custom_rules_path)
    /\ call.way.type # None
    /\ result["success"] = FALSE
    /\ prev.op = "generate_rules"
    /\ prev.way.saved
    /\ IsFile(fs, Resolve(cwd, prev.way.output_path))

\* the arguments of two calls of the same tool are the same
SameArguments(c1, c2) ==
    /\ c1.op = c2.op
    /\ c1.op \in {"analyze_project", "detect_technology"} => c1.project_path = c2.project_path
    /\ c1.op = "generate_rules" =>
           /\ c1.project_path = c2.project_path
           /\ c1.output_filename = c2.output_filename
           /\ c1.custom_rules_path = c2.custom_rules_path
           /\ c1.project_type = c2.project_type

\* C20: no call retains state.  After any sequence of calls the result of the next
\* call and the probes it runs are those of the tool applied to its arguments,
\* CURSOR_WORKSPACE and the filesystem of that moment; a call with the arguments of
\* the call before it, over an unchanged filesystem, gives the same result; every
\* call walks PROJECT_CHECKERS in its fixed order from the first probe, each probe at
\* most once; and a successful Generate has written its document once, under the name
\* the fixed registry gives the category.
C20_NoStateAcrossCalls ==
    [][/\ call'.op = "analyze_project" =>
              /\ result' = analyze_project_tool(fs, sys, cwd, env, call'.project_path).result
              /\ trace' = analyze_project_tool(fs, sys, cwd, env, call'.project_path).trace
       /\ call'.op = "detect_technology" =>
              /\ result' = detect_technology_tool(fs, sys, cwd, env, call'.project_path).result
              /\ trace' = detect_technology_tool(fs, sys, cwd, env, call'.project_path).trace
       /\ call'.op = "list_supported_technologies" =>
              /\ result' = list_supported_technologies_tool
              /\ trace' = << >>
       /\ call'.op = "generate_rules" =>
              LET r == generate_rules_tool(fs, sys, cwd, env, call'.project_path,
                                           call'.output_filename, call'.custom_rules_path,
                                           call'.project_type, call'.fault)
              IN  /\ result' = r.result
                  /\ trace' = r.trace
                  /\ fs' = r.fs
       /\ call'.op # "generate_rules" => fs' = fs
       /\ Len(trace') <= Len(PROJECT_CHECKERS)
       /\ \A i \in 1..Len(trace') : trace'[i].probe = PROJECT_CHECKERS[i]
       /\ (call'.op = "generate_rules" /\ call'.way.saved) =>
              LET file == Resolve(cwd, call'.way.output_path)
                  ws == Writes(call'.way.final)
                  template == load_mdc_file(fs, cwd,
                                  join2(TEMPLATES_DIR, PROJECT_TYPES_TEMPLATES[call'.way.type]))
              IN  /\ IsFile(fs', file)
                  /\ SameText(Data(fs', file).chunks, Concat(ws, Len(ws)))
                  /\ call'.way.type \in DOMAIN PROJECT_TYPES_TEMPLATES =>
                         (template.st = "ok" =>
                             SameText(template.frontmatter, call'.way.final.frontmatter))
       /\ (SameArguments(call', call) /\ fs' = fs) => (result' = result /\ trace' = trace)
      ]_vars

\* an analysis after a generation that wrote the rules: check_angular raised once and
\* check_python matched, as in the generation before it
C20_Witness ==
    /\ ncalls = 2
    /\ prev.op = "generate_rules"
    /\ prev.way.saved
    /\ call.op = "analyze_project"
    /\ result["success"] = TRUE
    /\ Len(trace) = 5
    /\ \E i \in 1..Len(trace) : trace[i].raised
    /\ IsFile(fs, Resolve(cwd, prev.way.output_path))

----
(* Version claims, checked under SpecVersions *)

\* the integer a text begins with, -1 when it does not begin with a digit
LeadingInt(v) == IF v # << >> /\ v[1] \in Digits THEN IntOf(v, 1, RunEnd(v, 1), 0) ELSE -1

\* d holds exactly the keys of yes among the keys of all, each with the value TRUE
OnlyFlags(d, all, yes) == \A k \in all : IF k \in yes THEN TB(d, k) ELSE ~HasKey(d, k)

\* C21: for a pom.xml whose parent artifactId is spring-boot-starter-parent with a
\* declared version, check_spring_boot returns springboot with spring_boot_version the
\* declared string and spring_boot_major_version its leading integer; major 1 gives
\* is_legacy and security_priority high, major 2 is_modern and medium, major 3 or more
\* is_latest, requires_java17 and low, and at most one of the three flags is set.
C21_BootParentVersion ==
    LET pom == Resolve(cwd, join(call.path, <<"pom.xml">>))
    IN  (/\ call.op \in {"analyze_project", "detect_technology"}
         /\ isdir(fs, cwd, call.path)
         /\ IsFile(fs, pom)
         /\ Data(fs, pom).k = "pom"
         /\ Data(fs, pom).ok
         /\ Data(fs, pom).parent.present
         /\ Data(fs, pom).parent.artifactId = "spring-boot-starter-parent"
         /\ Data(fs, pom).parent.hasVersion
         /\ LeadingInt(Data(fs, pom).parent.version) >= 0)
        => LET v == Data(fs, pom).parent.version
               major == LeadingInt(v)
               d == trace[1].details
               flags == {"is_legacy", "is_modern", "is_latest", "requires_java17"}
           IN  /\ Len(trace) = 1
               /\ trace[1].probe = "check_spring_boot"
               /\ ~trace[1].raised
               /\ trace[1].type = "springboot"
               /\ HasKey(d, "spring_boot_version")
               /\ d["spring_boot_version"] = v
               /\ HasKey(d, "spring_boot_major_version")
               /\ d["spring_boot_major_version"] = major
               /\ major = 1 => OnlyFlags(d, flags, {"is_legacy"}) /\ d["security_priority"] = "high"
               /\ major = 2 => OnlyFlags(d, flags, {"is_modern"}) /\ d["security_priority"] = "medium"
               /\ major >= 3 => /\ OnlyFlags(d, flags, {"is_latest", "requires_java17"})
                                /\ d["security_priority"] = "low"
               /\ Cardinality({k \in {"is_legacy", "is_modern", "is_latest"} : HasKey(d, k)}) <= 1

\* the pom.xml of the project declares the Maven POM namespace and the Spring Boot
\* parent in version 1.4.2
Boot142(F, c, path) ==
    LET pom == Resolve(c, join(path, <<"pom.xml">>))
    IN  /\ IsFile(F, pom)
        /\ Data(F, pom).k = "pom"
        /\ Data(F, pom).ok
        /\ Data(F, pom).ns
        /\ Data(F, pom).parent.present
        /\ Data(F, pom).parent.artifactId = "spring-boot-starter-parent"
        /\ Data(F, pom).parent.hasVersion
        /\ Data(F, pom).parent.version = <<"1", ".", "4", ".", "2">>

SpringVersionSources(F, c, path) ==
    LET pom == Resolve(c, join(path, <<"pom.xml">>))
        gradle == Resolve(c, join(path, <<"build.gradle">>))
        d == Data(F, pom)
        fromPom == IsFile(F, pom) /\ d.k = "pom" /\ d.ok /\ d.ns
        props == IF fromPom /\ d.hasProps
                 THEN SelectSeq(d.props, LAMBDA q : q.name = "spring.version" /\ q.text # NoText)
                 ELSE << >>
        deps == IF fromPom /\ d.hasDeps
                THEN SelectSeq(d.deps, LAMBDA q : q.g = "org.springframework" /\ q.hasV
                                                  /\ q.v # NoText)
                ELSE << >>
    IN  (IF props # << >> THEN <<props[1].text>> ELSE << >>)
        \o (IF deps # << >> THEN <<deps[1].v>> ELSE << >>)
        \o (IF IsFile(F, gradle) /\ Data(F, gradle).k = "text"
                /\ HasKey(Data(F, gradle).vals, "springframework")
            THEN <<Data(F, gradle).vals["springframework"]>> ELSE << >>)

\* C23: when the version sources of a java_legacy_spring project disagree, the
\* reported spring_framework_version is that of the first source examined (the pom.xml
\* property, then the org.springframework dependency, then build.gradle), and
\* spring_major_version, spring_minor_version and security_priority are those of the
\* reported version.
C23_FirstVersionSourceWins ==
    (/\ call.op \in {"analyze_project", "detect_technology"}
     /\ Len(trace) = 2
     /\ trace[2].type = "java_legacy_spring"
     /\ SpringVersionSources(fs, cwd, call.path) # << >>)
    => LET d == trace[2].details
           first == SpringVersionSources(fs, cwd, call.path)[1]
           m == SearchMajorMinor(d["spring_framework_version"])
       IN  /\ HasKey(d, "spring_framework_version")
           /\ d["spring_framework_version"] = first
           /\ m.found =>
                  /\ HasKey(d, "spring_major_version")
                  /\ d["spring_major_version"] = m.major
                  /\ d["spring_minor_version"] = m.minor
                  /\ d["security_priority"] =
                         (IF m.major = 1 \/ (m.major = 2 /\ m.minor < 5) THEN "critical"
                          ELSE IF m.major = 2 \/ (m.major = 3 /\ m.minor < 2) THEN "high"
                          ELSE IF m.major = 3 THEN "medium"
                          ELSE "low")

\* the flags among is_very_legacy, is_legacy and is_old that the attributes d set
AgeFlags(d) == {k \in {"is_very_legacy", "is_legacy", "is_old"} : HasKey(d, k) /\ d[k] = TRUE}

\* C26: a java_legacy_spring result with a parsed version MAJOR.MINOR has
\* security_priority critical and is_very_legacy if major = 1 or (major = 2 and
\* minor < 5); otherwise high and is_legacy if major = 2 or (major = 3 and minor < 2);
\* otherwise medium and is_old if major = 3; otherwise low and none of the three flags.
\* At most one of the three flags is set.
C26_SpringVersionAssessment ==
    (/\ call.op \in {"analyze_project", "detect_technology"}
     /\ Len(trace) = 2
     /\ trace[2].type = "java_legacy_spring"
     /\ HasKey(trace[2].details, "spring_major_version"))
    => LET d == trace[2].details
           major == d["spring_major_version"]
           minor == d["spring_minor_version"]
       IN  /\ HasKey(d, "security_priority")
           /\ Cardinality(AgeFlags(d)) <= 1
           /\ IF major = 1 \/ (major = 2 /\ minor < 5)
              THEN d["security_priority"] = "critical" /\ AgeFlags(d) = {"is_very_legacy"}
              ELSE IF major = 2 \/ (major = 3 /\ minor < 2)
              THEN d["security_priority"] = "high" /\ AgeFlags(d) = {"is_legacy"}
              ELSE IF major = 3
              THEN d["security_priority"] = "medium" /\ AgeFlags(d) = {"is_old"}
              ELSE d["security_priority"] = "low" /\ AgeFlags(d) = {}

\* version 2.5 was assessed: the first major-2 version that is not very legacy
C26_Witness ==
    /\ call.op = "analyze_project"
    /\ Len(trace) = 2
    /\ trace[2].type = "java_legacy_spring"
    /\ HasKey(trace[2].details, "spring_major_version")
    /\ trace[2].details["spring_major_version"] = 2
    /\ trace[2].details["spring_minor_version"] = 5
    /\ trace[2].details["security_priority"] = "high"

----
(* Claims about the list of technologies and the path context, checked under Spec *)

\* C24: list_supported_technologies_tool returns, on every call and whatever the state,
\* success = true, exactly six categories (springboot, angular, vue, python,
\* java_legacy_spring, gitlab_ci) and total_technologies equal to their number; the six
\* are exactly the keys of PROJECT_TYPES_TEMPLATES, and every category that an analysis
\* returns is one of them.
C24_SupportedTechnologiesAreTheRegistry ==
    /\ call.op = "list_supported_technologies" =>
           /\ result["success"] = TRUE
           /\ result["supported_technologies"] =
                  {"springboot", "angular", "vue", "python", "java_legacy_spring", "gitlab_ci"}
           /\ Cardinality(result["supported_technologies"]) = 6
           /\ result["total_technologies"] = Cardinality(result["supported_technologies"])
           /\ result["supported_technologies"] = DOMAIN PROJECT_TYPES_TEMPLATES
           /\ result = list_supported_technologies_tool
    /\ (call.op \in {"analyze_project", "detect_technology"} /\ Len(trace) > 0) =>
           \A i \in 1..Len(trace) :
               (~trace[i].raised /\ trace[i].type # None) =>
                   /\ trace[i].type \in list_supported_technologies_tool["supported_technologies"]
                   /\ trace[i].type \in DOMAIN PROJECT_TYPES_TEMPLATES

\* the list was asked for twice in a row
C24_Witness ==
    /\ call.op = "list_supported_technologies"
    /\ prev.op = "list_supported_technologies"
    /\ result["total_technologies"] = 6

----
(* Path context claim, checked under SpecPaths *)

\* the absolute, normalised form of a path string in the working directory c
AbsoluteForm(c, p) ==
    LET r == NormFrom((IF p[1] = Sep THEN << >> ELSE c) \o Split(p), 1, << >>)
    IN  IF r = << >> THEN <<Sep>> ELSE Unsplit(r)

----
(* Findings claim, checked under SpecFindings *)

\* the texts of the file rel of the project directory, when it is a text file
TextsOf(F, c, path, rel) ==
    LET p == Resolve(c, join2(path, rel))
    IN  IF IsFile(F, p) /\ Data(F, p).k = "text" THEN Data(F, p).has ELSE {}

\* C27: every result of category python carries security_priority: "high" when
\* debug_enabled is set, otherwise "medium" when hardcoded_secret_key is set or
\* risky_packages is non-empty, otherwise "low"; debug_enabled is set only for a Django
\* or a Flask project.
C27_PythonSecurityPriority ==
    (/\ call.op \in {"analyze_project", "detect_technology"}
     /\ Len(trace) > 0
     /\ trace[Len(trace)].type = "python")
    => LET d == trace[Len(trace)].details
           debug == HasKey(d, "debug_enabled") /\ d["debug_enabled"] = TRUE
           secret == HasKey(d, "hardcoded_secret_key") /\ d["hardcoded_secret_key"] = TRUE
           risky == HasKey(d, "risky_packages") /\ d["risky_packages"] # << >>
       IN  /\ HasKey(d, "security_priority")
           /\ d["security_priority"] \in {"low", "medium", "high"}
           /\ d["security_priority"] =
                  (IF debug THEN "high" ELSE IF secret \/ risky THEN "medium" ELSE "low")
           /\ debug => (HasKey(d, "is_django") \/ HasKey(d, "is_flask"))

\* a Django project with DEBUG = True, a literal SECRET_KEY and a risky package was
\* assessed as high
C27_Witness ==
    /\ call.op = "analyze_project"
    /\ Len(trace) > 0
    /\ trace[Len(trace)].type = "python"
    /\ {"DEBUG = True", "SECRET_KEY literal"}
           \subseteq TextsOf(fs, cwd, call.path, <<"conf", Sep, "settings", ".py">>)
    /\ HasKey(trace[Len(trace)].details, "risky_packages")
    /\ HasKey(trace[Len(trace)].details, "hardcoded_secret_key")
    /\ trace[Len(trace)].details["security_priority"] = "high"

----
(* Version source claim, checked under SpecSources *)

\* the values of the text file name of the project directory
ProjVals(F, c, path, name) ==
    LET p == Resolve(c, join(path, <<name>>))
    IN  IF IsFile(F, p) /\ Data(F, p).k = "text" THEN Data(F, p).vals ELSE EmptyDict

\* whether the first two dot-separated parts of v are integers
PartsAreInts(v) ==
    LET parts == SplitDot(v, 1, << >>)
    IN  PyInt(parts[1]).ok /\ (Len(parts) < 2 \/ PyInt(parts[2]).ok)

\* the version that the source src yields for the project at path, << >> when the
\* source is absent, unparsable or failing
SourceVersion(F, S, c, path, src) ==
    CASE src = "venv" ->
            LET Run(i) == RunFile(F, Resolve(c, join(path, <<venv_paths[i], "bin", "python">>)))
                idx == {i \in 1..Len(venv_paths) :
                           Run(i).kind = "ok" /\ SearchPythonVer(Run(i).out).found}
            IN  IF idx = {} THEN << >>
                ELSE SearchPythonVer(Run(CHOOSE i \in idx : \A j \in idx : i <= j).out).v
      [] src = "pyenv" ->
            LET t == ProjVals(F, c, path, ".python-version")
            IN  IF HasKey(t, "content") THEN MatchVerAtStart(t["content"]).v ELSE << >>
      [] src = "pyproject" ->
            LET t == ProjVals(F, c, path, "pyproject.toml")
            IN  IF HasKey(t, "requires-python") THEN SearchVer(t["requires-python"]).v
                ELSE IF HasKey(t, "poetry-python") THEN SearchVer(t["poetry-python"]).v
                ELSE << >>
      [] src = "pipfile" ->
            LET t == ProjVals(F, c, path, "Pipfile")
            IN  IF HasKey(t, "python_version") /\ PartsAreInts(t["python_version"])
                THEN t["python_version"] ELSE << >>
      [] src = "setup.py" ->
            LET t == ProjVals(F, c, path, "setup.py")
            IN  IF HasKey(t, "python_requires") THEN SearchVer(t["python_requires"]).v
                ELSE << >>
      [] src = "system" ->
            LET idx == {i \in 1..Len(python_commands) :
                           /\ S.run[python_commands[i]].kind = "ok"
                           /\ SearchPythonVer(S.run[python_commands[i]].out).found
                           /\ S.which[python_commands[i]].kind \in {"ok", "nonzero"}}
            IN  IF idx = {} THEN << >>
                ELSE SearchPythonVer(
                         S.run[python_commands[CHOOSE i \in idx : \A j \in idx : i <= j]].out).v

VersionSources == <<"venv", "pyenv", "pyproject", "pipfile", "setup.py", "system">>

\* C28: detect_python_version consults the virtual environment, .python-version,
\* pyproject.toml, Pipfile, setup.py and the system interpreter in this order; the result
\* holds the version of the first source that yields one, python_source names that
\* source, is_venv is true exactly when it is "venv", and no system interpreter is
\* launched when an earlier source yields; a source that is absent, unparsable or
\* failing is skipped, so that the result holds no version when no source yields one.
C28_FirstVersionSource ==
    (/\ call.op \in {"analyze_project", "detect_technology"}
     /\ trace # << >>
     /\ trace[Len(trace)].probe = "check_python"
     /\ trace[Len(trace)].type = "python")
    => LET d == trace[Len(trace)].details
           runs == detect_python_version(fs, sys, cwd, call.path).runs
           Yields(src) == SourceVersion(fs, sys, cwd, call.path, src) # << >>
           ys == SelectSeq(VersionSources, Yields)
       IN  IF ys = << >>
           THEN ~HasKey(d, "python_version") /\ ~HasKey(d, "python_source")
           ELSE /\ HasKey(d, "python_version")
                /\ d["python_version"] = SourceVersion(fs, sys, cwd, call.path, ys[1])
                /\ d["python_source"] = ys[1]
                /\ d["is_venv"] = (ys[1] = "venv")
                /\ ys[1] # "system" =>
                       \A i \in 1..Len(runs) :
                           \A j \in 1..Len(python_commands) :
                               runs[i].cmd # <<python_commands[j]>>

----
(* Marker claim, checked under SpecMarkers *)

\* C29: a successful generate_rules_tool call never changes what detection returns:
\* for every output_filename, analyze_project returns the same category and the same
\* attributes on the filesystem before the call and on the filesystem after it.
C29_GenerateKeepsDetection ==
    [][(call'.op = "generate_rules" /\ call'.way.saved)
       => LET before == analyze_project(fs, sys, cwd, call'.path)
              after == analyze_project(fs', sys, cwd, call'.path)
          IN  /\ after.type = before.type
              /\ DOMAIN after.details = DOMAIN before.details
              /\ after.details = before.details]_vars

----
(* Page claim, checked under SpecPages *)

ExcludedDirs == {<<"target">>, <<"build">>, <<".git">>, <<"node_modules">>}

\* the .jsp, .jspf and .jspx files below the directory root that are not inside a
\* directory named target, build, .git or node_modules
JspFilesUnder(F, root) ==
    {i \in 1..Len(F) :
        /\ ~F[i].dir
        /\ Len(F[i].path) > Len(root)
        /\ SubSeq(F[i].path, 1, Len(root)) = root
        /\ IsJsp(Last(F[i].path))
        /\ \A k \in (Len(root) + 1)..(Len(F[i].path) - 1) : F[i].path[k] \notin ExcludedDirs}

\* C30: in every java_legacy_spring result, jsp_files_count is the number of .jsp,
\* .jspf and .jspx files under the project root that are not inside a directory named
\* target, build, .git or node_modules, wherever the project root lies, and the entries
\* jsp_file_N exist exactly for N from 1 to min(3, jsp_files_count).
C30_JspFilesCount ==
    (/\ call.op \in {"analyze_project", "detect_technology"}
     /\ Len(trace) = 2
     /\ trace[2].type = "java_legacy_spring")
    => LET d == trace[2].details
           n == Cardinality(JspFilesUnder(fs, Resolve(cwd, call.path)))
       IN  /\ HasKey(d, "jsp_files_count")
           /\ d["jsp_files_count"] = n
           /\ \A k \in 1..3 : HasKey(d, JspKey(k)) <=> k <= d["jsp_files_count"]

====
